---- MODULE Spec2Model ----
(***************************************************************************)
(* Canvas AI Co-Drawing Engine: the Generation Pipeline (useCanvasSolver), *)
(* the part of the Layer Registry (useLayers) the pipeline calls into, and *)
(* the canvas store (tldraw editor) both write to.                         *)
(*                                                                         *)
(* The program is single-threaded: every action below is one synchronous   *)
(* run of a callback, from its entry (or from the resumption of an await)  *)
(* to its next await or return.  The awaits of generateSolution are the    *)
(* program points "snapshot", "fetch", "json", "bgremove" and "imgload".   *)
(***************************************************************************)
EXTENDS Integers, Sequences, FiniteSets, TLC

(* ----------------------------- bounds ---------------------------------- *)
MaxReq    == 2      \* generateSolution activations that have not settled yet
MaxShapes == 2      \* shape ids ever created (user shapes and staged shapes)
MaxLayers == 2      \* layers at once that addLayer adds to
MaxNewLayers == 2   \* layer ids ever generated
MaxTimers == 1      \* reset-to-idle timers of one kind armed at once
MaxLatchTimers == 1 \* latch-clear timers armed at once
MaxLatchBurst == 2  \* latch-clear timers armed at once when engine writes overlap
QuietPeriod == 2    \* clock ticks in the debouncer's quiet period (2000 ms)

(* ------------------------- value universes ----------------------------- *)
Sources == {"auto", "chat", "voice"}
NoLayer == "null"
NoTarget == "none"
DefaultLayerId == "default"
LayerIdTable == <<"layer-1", "layer-2", "layer-3", "layer-4", "layer-5">>
TargetNames == {"Layer 2"}
ShapeIds == 1..MaxShapes
ReqIds == 1..MaxReq

VARIABLES
  layers,              \* useLayers: Layer[] (sequence, front = last)
  activeLayerId,       \* useLayers: activeLayerId
  layerShapeMap,       \* page meta layerShapeMap: layer id -> sequence of shape ids
  nextLayerNum,        \* number of generated layer ids so far
  shapes,              \* editor store: shape id -> [isLocked, opacity, layerId]
  assets,              \* editor store: asset ids
  nextShapeId,         \* createShapeId(): next fresh shape id
  pendingImageIds,     \* useCanvasSolver state
  status,              \* useCanvasSolver state
  statusMessage,       \* useCanvasSolver state
  errorMessage,        \* useCanvasSolver state
  isAIEnabled,         \* useCanvasSolver state
  isVoiceSessionActive,\* prop of useCanvasSolver
  isProcessingRef,     \* in-flight guard
  abortControllerRef,  \* request id whose AbortController the ref holds, 0 = null
  isUpdatingImageRef,  \* the engine-write latch
  reqs,                \* slot -> activation record of one generateSolution call
  successTimers,       \* armed setTimeout(2000) reset-to-idle timers
  errorTimers,         \* armed setTimeout(3000) reset-to-idle timers
  latchTimers,         \* armed setTimeout(100) latch-clear timers
  last,                \* the operation that produced this state, and what it returned
  debounceTimer,       \* useDebounceActivity: ticks left on the pending timer, NoTimer = none
  sinceMutation,       \* ticks since the last mutation the debouncer took, capped
  triggers,            \* trigger callbacks since that mutation, capped
  saveTimeout,         \* useBoardSync: whether the setTimeout(2000) save timer is pending
  online,              \* navigator.onLine
  savePc,              \* the await the save callback is suspended at, "idle" = not running
  snapshot,            \* the snapshot the running save callback captured
  stored,              \* the data column of the board's row in the remote store
  overlapPc,           \* a save callback started while another one is awaiting: its await
  overlapSnapshot,     \* the snapshot that callback captured
  isSessionActive,     \* useVoiceAgent state
  voiceStatus,         \* useVoiceAgent state: status
  statusDetail,        \* useVoiceAgent state, "" = null
  isMuted,             \* useVoiceAgent state
  pcRef,               \* session whose RTCPeerConnection the ref holds, 0 = null
  dcRef,               \* session whose RTCDataChannel the ref holds, 0 = null
  localStreamRef,      \* session whose MediaStream the ref holds, 0 = null
  session,             \* number of sessions that acquired the microphone so far
  pcState,             \* the latest session's peer connection: "none", "open", "closed"
  dcState,             \* its data channel: "none", "connecting", "open", "closed"
  micLive,             \* whether its microphone tracks are live
  startPc,             \* the await startSession is suspended at, "idle" = not running
  restartPc,           \* the await of a startSession called again while connecting
  unreferenced,        \* sessions whose stream and connection are live with no ref to them
  calls,               \* the function_call items received, in arrival order
  sent,                \* the tool messages sent on the data channel, in order
  mounted              \* whether the component is mounted

vars == <<layers, activeLayerId, layerShapeMap, nextLayerNum, shapes, assets,
          nextShapeId, pendingImageIds, status, statusMessage, errorMessage,
          isAIEnabled, isVoiceSessionActive, isProcessingRef, abortControllerRef,
          isUpdatingImageRef, reqs, successTimers, errorTimers,
          latchTimers, last, debounceTimer, sinceMutation, triggers, saveTimeout,
          online, savePc, snapshot, stored, overlapPc, overlapSnapshot,
          isSessionActive, voiceStatus,
          statusDetail, isMuted, pcRef, dcRef, localStreamRef, session, pcState,
          dcState, micLive, startPc, restartPc, unreferenced, calls, sent,
          mounted>>

layerVars  == <<layers, activeLayerId, layerShapeMap, nextLayerNum>>
canvasVars == <<shapes, assets, nextShapeId>>
statusVars == <<status, statusMessage, errorMessage>>
timerVars  == <<successTimers, errorTimers, latchTimers>>
propVars   == <<isAIEnabled, isVoiceSessionActive>>
refVars    == <<isProcessingRef, abortControllerRef>>
debounceVars == <<debounceTimer, sinceMutation, triggers>>
overlapVars == <<overlapPc, overlapSnapshot>>
syncVars   == <<saveTimeout, online, savePc, snapshot, stored, overlapVars>>
\* The state of the hooks mounted next to useCanvasSolver and useLayers.
voiceStateVars == <<isSessionActive, voiceStatus, statusDetail, isMuted>>
voiceRefVars == <<pcRef, dcRef, localStreamRef>>
rtcVars    == <<session, pcState, dcState, micLive>>
restartVars == <<restartPc, unreferenced>>
voiceVars  == <<voiceStateVars, voiceRefVars, rtcVars, startPc, restartVars, calls, sent,
                 mounted>>
hookVars   == <<debounceVars, syncVars, voiceVars>>

(* ----------------------------- helpers --------------------------------- *)
Range(s) == {s[i] : i \in 1..Len(s)}

Includes(s, x) == x \in Range(s)

FilterOut(s, x) == SelectSeq(s, LAMBDA y : y # x)

NoDuplicates(s) == \A i, j \in 1..Len(s) : s[i] = s[j] => i = j

LayerIds(ls) == {ls[i].id : i \in 1..Len(ls)}

\* layers.find(l => l.id === id); the result is used only when HasLayer holds
HasLayer(ls, id) == id \in LayerIds(ls)
FindLayer(ls, id) == ls[CHOOSE i \in 1..Len(ls) : ls[i].id = id]

\* layer?.isVisible === false
IsHidden(ls, id) == HasLayer(ls, id) /\ ~FindLayer(ls, id).isVisible

(* --------------------------- canvas store ------------------------------ *)
\* editor.updateShape: a missing shape is skipped; a locked shape is skipped
\* unless the partial itself unlocks it.
updateShape(sh, id, partial) ==
  IF id \notin DOMAIN sh THEN sh
  ELSE IF sh[id].isLocked /\ ~("isLocked" \in DOMAIN partial /\ ~partial.isLocked)
       THEN sh
  ELSE [sh EXCEPT ![id] =
          [f \in DOMAIN sh[id] |-> IF f \in DOMAIN partial THEN partial[f] ELSE sh[id][f]]]

\* editor.deleteShape: a missing shape is skipped, a locked shape is kept.
deleteShape(sh, id) ==
  IF id \notin DOMAIN sh THEN sh
  ELSE IF sh[id].isLocked THEN sh
  ELSE [x \in DOMAIN sh \ {id} |-> sh[x]]

(* ------------------------- Layer Registry ------------------------------ *)
getLayerIdForShape(map, shapeId) ==
  IF \E k \in DOMAIN map : Includes(map[k], shapeId)
  THEN CHOOSE k \in DOMAIN map : Includes(map[k], shapeId)
  ELSE NoLayer

\* An assignment that adds the shape to the layer and forgets its previous one.
AssignWithoutRemoval(map, shapeId, layerId) ==
  [k \in DOMAIN map \cup {layerId} |->
     IF k = layerId
     THEN IF k \in DOMAIN map
          THEN IF Includes(map[k], shapeId) THEN map[k] ELSE Append(map[k], shapeId)
          ELSE <<shapeId>>
     ELSE map[k]]

assignShapeToLayer(map, shapeId, layerId) ==
  [k \in DOMAIN map \cup {layerId} |->
     IF k = layerId
     THEN IF k \in DOMAIN map
          THEN IF Includes(map[k], shapeId) THEN map[k] ELSE Append(map[k], shapeId)
          ELSE <<shapeId>>
     ELSE FilterOut(map[k], shapeId)]

\* name.toLowerCase().replace(/^layer\s+/i, '').trim()
NormalizeName(name) ==
  CASE name = "Layer 1" -> "1"
    [] name = "Layer 2" -> "2"
    [] name = "layer 2" -> "2"
    [] name = "2"       -> "2"
    [] name = "Layer 3" -> "3"
    [] name = "Layer 4" -> "4"
    [] name = "Sketch"  -> "sketch"
    [] OTHER            -> name

\* name.toLowerCase()
LowerName(name) ==
  CASE name = "Layer 1" -> "layer 1"
    [] name = "Layer 2" -> "layer 2"
    [] name = "Layer 3" -> "layer 3"
    [] name = "Layer 4" -> "layer 4"
    [] name = "Sketch"  -> "sketch"
    [] OTHER            -> name

LayerMatches(l, layerName) ==
  \/ NormalizeName(l.name) = NormalizeName(layerName)
  \/ l.id = layerName
  \/ LowerName(l.name) = LowerName(layerName)

\* The name findOrCreateLayer gives a layer it creates.
NewLayerName(layerName) ==
  CASE layerName = "2" -> "Layer 2"
    [] OTHER           -> layerName

\* findOrCreateLayer searches the layers of the render it was created in.
FindExisting(ls, layerName) ==
  IF \E i \in 1..Len(ls) : LayerMatches(ls[i], layerName)
  THEN ls[CHOOSE i \in 1..Len(ls) :
            /\ LayerMatches(ls[i], layerName)
            /\ \A j \in 1..(i - 1) : ~LayerMatches(ls[j], layerName)].id
  ELSE NoLayer

\* beforeCreate hook: the layer a new shape is tagged with
HookLayerId(metaLayerId) ==
  IF metaLayerId # NoLayer THEN metaLayerId
  ELSE IF activeLayerId # "" THEN activeLayerId
  ELSE IF Len(layers) > 0 THEN layers[1].id
  ELSE DefaultLayerId

\* beforeCreate hook: opacity of the new shape
HookOpacity(shapeLayerId, opacity) ==
  IF IsHidden(layers, shapeLayerId) THEN 0 ELSE opacity

(* ------------------------------- Init ---------------------------------- *)
IdleReq == [pc |-> "none", aborted |-> FALSE, cLayers |-> <<>>, cActive |-> "",
            target |-> NoTarget]

\* last: op is the kind of operation; for a call, src and the slot r it took
\* (0: refused); for a settlement, the slot r, the await it resumed from (at),
\* whether the request had been cancelled and the success flag it returned; for
\* handleAccept/handleReject, the shape id passed, whether it existed and whether
\* it was pending; for a Layer Registry operation, the layer id passed; for a
\* settlement that staged a shape, the shape id and the id findOrCreateLayer
\* returned ("" when the response named no target layer).  failed: the settlement of a request that was not cancelled
\* followed a failure of the operation it awaited.
NoOp == [op |-> "init", r |-> 0, src |-> "", at |-> "", success |-> FALSE,
         cancelled |-> FALSE, failed |-> FALSE, shape |-> 0, existed |-> FALSE,
         wasPending |-> FALSE, layer |-> ""]

\* No debounce timer is pending.
NoTimer == -1

\* getSnapshot(editor.store): the document records of the store
StoreSnapshot == [shapes |-> shapes, assets |-> assets, layerShapeMap |-> layerShapeMap]

NoSnapshot == [shapes |-> <<>>, assets |-> {}, layerShapeMap |-> <<>>]

\* The hooks next to useCanvasSolver and useLayers after mount: no timer is
\* pending, the browser is online, and the remote row holds the board as loaded.
InitHooks ==
  /\ debounceTimer = NoTimer
  /\ sinceMutation = QuietPeriod
  /\ triggers = 0
  /\ saveTimeout = FALSE
  /\ online = TRUE
  /\ savePc = "idle"
  /\ snapshot = NoSnapshot
  /\ stored = StoreSnapshot
  /\ overlapPc = "idle"
  /\ overlapSnapshot = NoSnapshot
  /\ isSessionActive = FALSE
  /\ voiceStatus = "idle"
  /\ statusDetail = ""
  /\ isMuted = FALSE
  /\ pcRef = 0
  /\ dcRef = 0
  /\ localStreamRef = 0
  /\ session = 0
  /\ pcState = "none"
  /\ dcState = "none"
  /\ micLive = FALSE
  /\ startPc = "idle"
  /\ restartPc = "idle"
  /\ unreferenced = {}
  /\ calls = <<>>
  /\ sent = <<>>
  /\ mounted = TRUE

Init ==
  /\ layers = <<[id |-> DefaultLayerId, name |-> "Layer 1",
                 isVisible |-> TRUE, isLocked |-> FALSE]>>
  /\ activeLayerId = DefaultLayerId
  /\ layerShapeMap = <<>>
  /\ nextLayerNum = 0
  /\ shapes = <<>>
  /\ assets = {}
  /\ nextShapeId = 1
  /\ pendingImageIds = <<>>
  /\ status = "idle"
  /\ statusMessage = ""
  /\ errorMessage = ""
  /\ isAIEnabled = TRUE
  /\ isVoiceSessionActive = FALSE
  /\ isProcessingRef = FALSE
  /\ abortControllerRef = 0
  /\ isUpdatingImageRef = FALSE
  /\ reqs = [r \in ReqIds |-> IdleReq]
  /\ successTimers = 0
  /\ errorTimers = 0
  /\ latchTimers = 0
  /\ last = NoOp
  /\ InitHooks

(* ------------------- canvas store: shape creation ---------------------- *)
\* A creation whose hook indexes the shape and leaves its tag as it came.
CreateWithoutHookTag(sh, id, isLocked, opacity, metaLayerId) ==
  [x \in DOMAIN sh \cup {id} |->
     IF x = id
     THEN [isLocked |-> isLocked,
           opacity  |-> HookOpacity(HookLayerId(metaLayerId), opacity),
           layerId  |-> metaLayerId]
     ELSE sh[x]]

\* editor.createShape with the registered beforeCreate hook applied: the new
\* record as it is committed to the store.
createShape(sh, id, isLocked, opacity, metaLayerId) ==
  [x \in DOMAIN sh \cup {id} |->
     IF x = id
     THEN [isLocked |-> isLocked,
           opacity  |-> HookOpacity(HookLayerId(metaLayerId), opacity),
           layerId  |-> HookLayerId(metaLayerId)]
     ELSE sh[x]]

(* ---------------------- Generation Pipeline ---------------------------- *)
InFlight(r) == reqs[r].pc # "none"

\* A request that passed the entry guard, has not settled and was not cancelled.
Live(r) == InFlight(r) /\ ~reqs[r].aborted

LiveReqs == {r \in ReqIds : Live(r)}

\* The early returns without the in-flight guard of lines 49-52.
EntryGuardWithoutInFlight(src) ==
  \/ isVoiceSessionActive /\ src # "voice"
  \/ ~isAIEnabled /\ src = "auto"
  \/ DOMAIN shapes = {} /\ src \notin {"chat", "voice"}

\* generateSolution, lines 49-64: the three early returns
EntryGuardRefuses(src) ==
  \/ isProcessingRef
  \/ isVoiceSessionActive /\ src # "voice"
  \/ ~isAIEnabled /\ src = "auto"
  \/ DOMAIN shapes = {} /\ src \notin {"chat", "voice"}

shapesToCapture == DOMAIN shapes \ Range(pendingImageIds)

\* setStatus("generating"); setStatusMessage(getStatusMessage("generating"))
SetGenerating ==
  /\ status' = "generating"
  /\ statusMessage' = "Thinking..."
  /\ UNCHANGED errorMessage

\* The finally block, reached by every return and by the catch block.
\* A finally block that leaves the in-flight guard as it is.
FinallyKeepsGuard(r, success, failed) ==
  /\ isProcessingRef' = isProcessingRef
  /\ abortControllerRef' = 0
  /\ reqs' = [reqs EXCEPT ![r] = IdleReq]
  /\ last' = [NoOp EXCEPT !.op = "settle", !.r = r, !.at = reqs[r].pc,
                          !.success = success, !.cancelled = reqs[r].aborted,
                          !.failed = failed /\ ~reqs[r].aborted]

Finally(r, success, failed) ==
  /\ isProcessingRef' = FALSE
  /\ abortControllerRef' = 0
  /\ reqs' = [reqs EXCEPT ![r] = IdleReq]
  /\ last' = [NoOp EXCEPT !.op = "settle", !.r = r, !.at = reqs[r].pc,
                          !.success = success, !.cancelled = reqs[r].aborted,
                          !.failed = failed /\ ~reqs[r].aborted]

\* solutionData.textContent of a response (line 124), when it is not empty
TextContent == "text"

\* The textContent of the value a settlement returns: the response's text
\* beside success: true (lines 139 and 231), "" beside success: false.
ReturnedText(l) == IF l.op = "settle" /\ l.success THEN TextContent ELSE ""

\* error.message of an error a collaborator threw (export, network, JSON, canvas)
ThrownMessage == "Generation failed"

\* The catch block.
Catch(r, msg) ==
  /\ IF reqs[r].aborted
     THEN /\ status' = "idle"
          /\ statusMessage' = ""
          /\ UNCHANGED <<errorMessage, errorTimers>>
     ELSE /\ errorTimers < MaxTimers
          /\ errorMessage' = msg
          /\ status' = "error"
          /\ statusMessage' = ""
          /\ errorTimers' = errorTimers + 1
  /\ Finally(r, FALSE, TRUE)

\* The activation record of a new call takes the first free slot.
FreeSlots == {r \in ReqIds : ~InFlight(r)}
NewSlot == CHOOSE r \in FreeSlots : \A q \in FreeSlots : r <= q

\* A call of generateSolution up to its first await (or its early return).
GenerateSolution(src) ==
  IF EntryGuardRefuses(src)
  THEN /\ last' = [NoOp EXCEPT !.op = "call", !.src = src]
       /\ UNCHANGED <<layerVars, canvasVars, pendingImageIds, statusVars, propVars,
                      refVars, isUpdatingImageRef, reqs, timerVars>>
  ELSE /\ FreeSlots # {}
       /\ isProcessingRef' = TRUE
       /\ abortControllerRef' = NewSlot
       /\ IF shapesToCapture = {}
          THEN /\ SetGenerating
               /\ reqs' = [reqs EXCEPT ![NewSlot] =
                             [IdleReq EXCEPT !.pc = "fetch", !.cLayers = layers,
                                             !.cActive = activeLayerId]]
          ELSE /\ UNCHANGED statusVars
               /\ reqs' = [reqs EXCEPT ![NewSlot] =
                             [IdleReq EXCEPT !.pc = "snapshot", !.cLayers = layers,
                                             !.cActive = activeLayerId]]
       /\ last' = [NoOp EXCEPT !.op = "call", !.src = src, !.r = NewSlot]
       /\ UNCHANGED <<layerVars, canvasVars, pendingImageIds, propVars,
                      isUpdatingImageRef, timerVars>>

\* await editor.toImage(...) resumes.
SnapshotSettles(r, out) ==
  /\ reqs[r].pc = "snapshot"
  /\ CASE out = "null" ->
            /\ Finally(r, FALSE, FALSE)
            /\ UNCHANGED <<statusVars, errorTimers>>
       [] out = "throw" -> Catch(r, ThrownMessage)
       [] out = "blob" ->
            IF reqs[r].aborted
            THEN /\ Finally(r, FALSE, FALSE)
                 /\ UNCHANGED <<statusVars, errorTimers>>
            ELSE /\ SetGenerating
                 /\ reqs' = [reqs EXCEPT ![r].pc = "fetch"]
                 /\ last' = [NoOp EXCEPT !.op = "step", !.r = r]
                 /\ UNCHANGED <<refVars, errorTimers>>
  /\ UNCHANGED <<layerVars, canvasVars, pendingImageIds, propVars, isUpdatingImageRef,
                 successTimers, latchTimers>>

\* await fetch('/api/generate-solution', {signal}) resumes.
FetchSettles(r, out) ==
  /\ reqs[r].pc = "fetch"
  /\ IF reqs[r].aborted \/ out = "reject" THEN Catch(r, ThrownMessage)
     ELSE IF out = "notok" THEN Catch(r, "Solution generation failed")
     ELSE /\ reqs' = [reqs EXCEPT ![r].pc = "json"]
          /\ last' = [NoOp EXCEPT !.op = "step", !.r = r]
          /\ UNCHANGED <<refVars, statusVars, errorTimers>>
  /\ UNCHANGED <<layerVars, canvasVars, pendingImageIds, propVars, isUpdatingImageRef,
                 successTimers, latchTimers>>

\* await solutionResponse.json() resumes; target is solutionData.targetLayer.
\* The body has no imageUrl when the classifier decided not to draw ("noimage",
\* route lines 83-90), when the image model returned no image and when the
\* image-generation stage threw ("artistfail", route lines 153-161).
JsonSettles(r, out, target) ==
  /\ reqs[r].pc = "json"
  /\ IF out = "reject" THEN Catch(r, ThrownMessage)
     ELSE IF out \in {"noimage", "artistfail"} \/ reqs[r].aborted
     THEN /\ status' = "idle"
          /\ statusMessage' = ""
          /\ UNCHANGED <<errorMessage, errorTimers>>
          /\ Finally(r, TRUE, out = "artistfail")
     ELSE /\ reqs' = [reqs EXCEPT ![r].pc = "bgremove", ![r].target = target]
          /\ last' = [NoOp EXCEPT !.op = "step", !.r = r]
          /\ UNCHANGED <<refVars, statusVars, errorTimers>>
  /\ UNCHANGED <<layerVars, canvasVars, pendingImageIds, propVars, isUpdatingImageRef,
                 successTimers, latchTimers>>

\* await removeWhiteBackground(imageUrl) resumes.
BgRemoveSettles(r, out) ==
  /\ reqs[r].pc = "bgremove"
  /\ IF out = "reject" THEN Catch(r, ThrownMessage)
     ELSE /\ reqs' = [reqs EXCEPT ![r].pc = "imgload"]
          /\ last' = [NoOp EXCEPT !.op = "step", !.r = r]
          /\ UNCHANGED <<refVars, statusVars, errorTimers>>
  /\ UNCHANGED <<layerVars, canvasVars, pendingImageIds, propVars, isUpdatingImageRef,
                 successTimers, latchTimers>>

\* The ids of the shapes on the page, in the order the pass visits them.
RECURSIVE SortedIds(_)
SortedIds(S) ==
  IF S = {} THEN <<>>
  ELSE LET m == CHOOSE x \in S : \A y \in S : x <= y
       IN <<m>> \o SortedIds(S \ {m})

\* ensureLayerBindings, lines 252-275: the loop over the shapes
RECURSIVE BindShapes(_, _, _, _)
BindShapes(ids, map, sh, fallbackLayerId) ==
  IF ids = <<>> THEN [map |-> map, sh |-> sh]
  ELSE LET id == Head(ids)
           metaLayerId == sh[id].layerId
           existingLayerId == getLayerIdForShape(map, id)
           targetLayerId ==
             IF metaLayerId # NoLayer THEN metaLayerId
             ELSE IF existingLayerId # NoLayer THEN existingLayerId
             ELSE fallbackLayerId
           removed ==
             IF existingLayerId # NoLayer
             THEN [map EXCEPT ![existingLayerId] = FilterOut(@, id)]
             ELSE map
           next ==
             IF existingLayerId # targetLayerId
             THEN [k \in DOMAIN removed \cup {targetLayerId} |->
                     IF k = targetLayerId
                     THEN Append(IF k \in DOMAIN removed THEN removed[k] ELSE <<>>, id)
                     ELSE removed[k]]
             ELSE map
           tagged ==
             IF metaLayerId = NoLayer
             THEN updateShape(sh, id, [layerId |-> targetLayerId])
             ELSE sh
       IN BindShapes(Tail(ids), next, tagged, fallbackLayerId)

\* ensureLayerBindings with the layers and the active layer of the render: the
\* index and the shapes after the pass.
ensureLayerBindings(ls, active, map, sh) ==
  IF DOMAIN sh = {} THEN [map |-> map, sh |-> sh]
  ELSE BindShapes(SortedIds(DOMAIN sh), map, sh,
                  IF active # "" THEN active
                  ELSE IF Len(ls) > 0 THEN ls[1].id
                  ELSE DefaultLayerId)

\* The pipeline without the check of line 156.
NoCheckAfterImageLoad(r) == FALSE

\* The check of signal.aborted after the image-load await (line 156).
AbortedAfterImageLoad(r) == reqs[r].aborted

\* Lines 186-189: the destination layer id, resolved in the closure of the call.
DestinationLayerId(r) ==
  IF reqs[r].target # NoTarget
  THEN IF FindExisting(reqs[r].cLayers, reqs[r].target) # NoLayer
       THEN FindExisting(reqs[r].cLayers, reqs[r].target)
       ELSE LayerIdTable[nextLayerNum + 1]
  ELSE IF reqs[r].cActive # "" THEN reqs[r].cActive
  ELSE IF Len(reqs[r].cLayers) > 0 THEN reqs[r].cLayers[1].id
  ELSE DefaultLayerId

\* findOrCreateLayer(targetLayerName) creates a layer
CreatesLayer(r) ==
  reqs[r].target # NoTarget /\ FindExisting(reqs[r].cLayers, reqs[r].target) = NoLayer

\* Lines 194-195: initialOpacity, from the layers of the closure
InitialOpacity(r) == IF IsHidden(reqs[r].cLayers, DestinationLayerId(r)) THEN 0 ELSE 1

\* Lines 158-231: the drawing outcome of a request that was not cancelled.
Stage(r) ==
  /\ nextShapeId <= MaxShapes
  /\ CreatesLayer(r) => nextLayerNum < MaxNewLayers
  /\ successTimers < MaxTimers
  /\ latchTimers < MaxLatchTimers
  /\ isUpdatingImageRef' = TRUE
  /\ assets' = assets \cup {nextShapeId}
  /\ IF reqs[r].target = NoTarget
     THEN UNCHANGED <<layers, activeLayerId, nextLayerNum>>
     ELSE /\ activeLayerId' = DestinationLayerId(r)
          /\ IF CreatesLayer(r)
             THEN /\ layers' = Append(layers,
                                  [id |-> DestinationLayerId(r),
                                   name |-> NewLayerName(reqs[r].target),
                                   isVisible |-> TRUE, isLocked |-> FALSE])
                  /\ nextLayerNum' = nextLayerNum + 1
             ELSE UNCHANGED <<layers, nextLayerNum>>
  /\ LET created == createShape(shapes, nextShapeId, TRUE, InitialOpacity(r),
                                DestinationLayerId(r))
         assigned == assignShapeToLayer(
                       assignShapeToLayer(layerShapeMap, nextShapeId,
                                          HookLayerId(DestinationLayerId(r))),
                       nextShapeId, DestinationLayerId(r))
         \* the reconciliation pass of the render that follows, when
         \* findOrCreateLayer changed layers or activeLayerId
         bound == IF layers' # layers \/ activeLayerId' # activeLayerId
                  THEN ensureLayerBindings(layers', activeLayerId', assigned, created)
                  ELSE [map |-> assigned, sh |-> created]
     IN /\ shapes' = bound.sh
        /\ layerShapeMap' = bound.map
  /\ nextShapeId' = nextShapeId + 1
  /\ pendingImageIds' = Append(pendingImageIds, nextShapeId)
  /\ status' = "success"
  /\ statusMessage' = "Success!"
  /\ UNCHANGED errorMessage
  /\ successTimers' = successTimers + 1
  /\ latchTimers' = latchTimers + 1
  /\ isProcessingRef' = FALSE
  /\ abortControllerRef' = 0
  /\ reqs' = [reqs EXCEPT ![r] = IdleReq]
  /\ last' = [NoOp EXCEPT !.op = "settle", !.r = r, !.at = reqs[r].pc, !.success = TRUE,
                          !.cancelled = reqs[r].aborted, !.shape = nextShapeId,
                          !.layer = IF reqs[r].target = NoTarget THEN ""
                                    ELSE DestinationLayerId(r)]
  /\ UNCHANGED <<errorTimers, propVars>>

\* await of the image-load promise resumes.
ImageLoadSettles(r, out) ==
  /\ reqs[r].pc = "imgload"
  /\ IF out = "reject"
     THEN /\ Catch(r, "Failed to load generated image")
          /\ UNCHANGED <<layerVars, canvasVars, pendingImageIds, propVars,
                         isUpdatingImageRef, successTimers, latchTimers>>
     ELSE IF AbortedAfterImageLoad(r)
     THEN /\ Finally(r, FALSE, FALSE)
          /\ UNCHANGED <<statusVars, errorTimers>>
          /\ UNCHANGED <<layerVars, canvasVars, pendingImageIds, propVars,
                         isUpdatingImageRef, successTimers, latchTimers>>
     ELSE Stage(r)

\* The image loaded and the request was not cancelled, the latch is set (line
\* 158), and editor.createAssets (at = "createAssets") or editor.createShape
\* (at = "createShape", the asset is in the store) throws: the catch block and
\* the finally block run, the setTimeout of lines 227-229 is never reached.
StageThrows(r, at) ==
  /\ reqs[r].pc = "imgload"
  /\ ~AbortedAfterImageLoad(r)
  /\ isUpdatingImageRef' = TRUE
  /\ assets' = IF at = "createShape" THEN assets \cup {nextShapeId} ELSE assets
  /\ Catch(r, ThrownMessage)
  /\ UNCHANGED <<layerVars, shapes, nextShapeId, pendingImageIds, propVars,
                 successTimers, latchTimers>>

\* The setTimeout(2000) armed on success fires.
SuccessTimerFires ==
  /\ successTimers > 0
  /\ successTimers' = successTimers - 1
  /\ status' = "idle"
  /\ statusMessage' = ""
  /\ last' = [NoOp EXCEPT !.op = "other"]
  /\ UNCHANGED <<layerVars, canvasVars, pendingImageIds, errorMessage, propVars, refVars,
                 isUpdatingImageRef, reqs, errorTimers, latchTimers>>

\* The setTimeout(3000) armed by the catch block fires.
ErrorTimerFires ==
  /\ errorTimers > 0
  /\ errorTimers' = errorTimers - 1
  /\ status' = "idle"
  /\ errorMessage' = ""
  /\ last' = [NoOp EXCEPT !.op = "other"]
  /\ UNCHANGED <<layerVars, canvasVars, pendingImageIds, statusMessage, propVars, refVars,
                 isUpdatingImageRef, reqs, successTimers, latchTimers>>

\* A setTimeout(100) armed after an engine write fires.
LatchTimerFires ==
  /\ latchTimers > 0
  /\ latchTimers' = latchTimers - 1
  /\ isUpdatingImageRef' = FALSE
  /\ last' = [NoOp EXCEPT !.op = "other"]
  /\ UNCHANGED <<layerVars, canvasVars, pendingImageIds, statusVars, propVars, refVars,
                 reqs, successTimers, errorTimers>>

\* handleEditorChange: the store listener for user-sourced document changes.
handleEditorChange ==
  IF isUpdatingImageRef \/ abortControllerRef = 0
  THEN UNCHANGED <<reqs, refVars, statusVars>>
  ELSE /\ reqs' = [reqs EXCEPT ![abortControllerRef].aborted = TRUE]
       /\ abortControllerRef' = 0
       /\ status' = "idle"
       /\ statusMessage' = ""
       /\ UNCHANGED errorMessage
       /\ isProcessingRef' = FALSE

\* A handler that leaves the pending list as it is.
KeepPending(pending, shapeId) == pending

\* Removal by position, prev.splice(prev.indexOf(shapeId), 1): an index of -1
\* removes the last element.
SpliceAtIndexOf(pending, shapeId) ==
  IF Includes(pending, shapeId)
  THEN LET k == CHOOSE i \in 1..Len(pending) :
                  /\ pending[i] = shapeId
                  /\ \A j \in 1..(i - 1) : pending[j] # shapeId
       IN SubSeq(pending, 1, k - 1) \o SubSeq(pending, k + 1, Len(pending))
  ELSE SubSeq(pending, 1, Len(pending) - 1)

\* setPendingImageIds((prev) => prev.filter((id) => id !== shapeId))
RemoveFromPending(pending, shapeId) == FilterOut(pending, shapeId)

\* The accepted shape made opaque whatever its layer's visibility.
AlwaysOpaque(shapeId) == 1

\* handleAccept, lines 293-295: the opacity the accepted shape gets
TargetOpacity(shapeId) ==
  IF IsHidden(layers, getLayerIdForShape(layerShapeMap, shapeId)) THEN 0 ELSE 1

\* handleAccept (lines 287-303) while fewer than `armed` latch-clear timers
\* are armed
AcceptUpTo(shapeId, armed) ==
  /\ latchTimers < armed
  /\ isUpdatingImageRef' = TRUE
  /\ shapes' = updateShape(
                 updateShape(shapes, shapeId,
                             [isLocked |-> FALSE, opacity |-> TargetOpacity(shapeId)]),
                 shapeId, [isLocked |-> TRUE])
  /\ pendingImageIds' = RemoveFromPending(pendingImageIds, shapeId)
  /\ latchTimers' = latchTimers + 1
  /\ last' = [NoOp EXCEPT !.op = "accept", !.shape = shapeId,
                          !.existed = shapeId \in DOMAIN shapes,
                          !.wasPending = Includes(pendingImageIds, shapeId)]
  /\ UNCHANGED <<layerVars, assets, nextShapeId, statusVars, propVars, refVars, reqs,
                 successTimers, errorTimers>>

handleAccept(shapeId) == AcceptUpTo(shapeId, MaxLatchTimers)

\* The delete without the unlock of line 309.
DeleteWithoutUnlock(sh, shapeId) == deleteShape(sh, shapeId)

\* handleReject, lines 309-310: the canvas after the unlock and the delete
RejectedShapes(sh, shapeId) ==
  deleteShape(updateShape(sh, shapeId, [isLocked |-> FALSE]), shapeId)

\* handleReject (lines 305-315) while fewer than `armed` latch-clear timers
\* are armed
RejectUpTo(shapeId, armed) ==
  /\ latchTimers < armed
  /\ isUpdatingImageRef' = TRUE
  /\ shapes' = RejectedShapes(shapes, shapeId)
  /\ pendingImageIds' = RemoveFromPending(pendingImageIds, shapeId)
  /\ latchTimers' = latchTimers + 1
  /\ last' = [NoOp EXCEPT !.op = "reject", !.shape = shapeId,
                          !.existed = shapeId \in DOMAIN shapes,
                          !.wasPending = Includes(pendingImageIds, shapeId)]
  /\ UNCHANGED <<layerVars, assets, nextShapeId, statusVars, propVars, refVars, reqs,
                 successTimers, errorTimers>>

handleReject(shapeId) == RejectUpTo(shapeId, MaxLatchTimers)

(* ------------------------------ the user ------------------------------- *)
\* The user draws a shape: editor.createShape runs the beforeCreate hook, the
\* store notifies handleEditorChange.
UserCreateShape ==
  /\ nextShapeId <= MaxShapes
  /\ shapes' = createShape(shapes, nextShapeId, FALSE, 1, NoLayer)
  /\ layerShapeMap' = assignShapeToLayer(layerShapeMap, nextShapeId, HookLayerId(NoLayer))
  /\ nextShapeId' = nextShapeId + 1
  /\ handleEditorChange
  /\ last' = [NoOp EXCEPT !.op = "edit"]
  /\ UNCHANGED <<layers, activeLayerId, nextLayerNum, assets, pendingImageIds, propVars,
                 isUpdatingImageRef, timerVars>>

\* The user changes (moves, restyles) an unlocked shape.
UserModifyShape(shapeId) ==
  /\ shapeId \in DOMAIN shapes
  /\ ~shapes[shapeId].isLocked
  /\ handleEditorChange
  /\ last' = [NoOp EXCEPT !.op = "edit"]
  /\ UNCHANGED <<layerVars, canvasVars, pendingImageIds, propVars, isUpdatingImageRef,
                 timerVars>>

\* The user deletes an unlocked shape.
UserDeleteShape(shapeId) ==
  /\ shapeId \in DOMAIN shapes
  /\ ~shapes[shapeId].isLocked
  /\ shapes' = deleteShape(shapes, shapeId)
  /\ handleEditorChange
  /\ last' = [NoOp EXCEPT !.op = "edit"]
  /\ UNCHANGED <<layerVars, assets, nextShapeId, pendingImageIds, propVars,
                 isUpdatingImageRef, timerVars>>

\* getLayerShapeIds: the ids indexed under the layer that still exist
getLayerShapeIds(map, sh, layerId) ==
  IF layerId \in DOMAIN map
  THEN SelectSeq(map[layerId], LAMBDA x : x \in DOMAIN sh)
  ELSE <<>>

\* getLayerShapeIds: the index after it dropped the ids of deleted shapes
PrunedMap(map, sh, layerId) ==
  IF layerId \in DOMAIN map /\ Len(getLayerShapeIds(map, sh, layerId)) # Len(map[layerId])
  THEN [map EXCEPT ![layerId] = getLayerShapeIds(map, sh, layerId)]
  ELSE map

\* editor.updateShapes(ids.map(id => ({id, ...partial})))
RECURSIVE updateShapes(_, _, _)
updateShapes(sh, ids, partial) ==
  IF ids = <<>> THEN sh
  ELSE updateShapes(updateShape(sh, Head(ids), partial), Tail(ids), partial)

\* The effects of the render that follows a change of layers or activeLayerId:
\* the page-meta sync (lines 298-311), whose store write notifies
\* handleEditorChange, and the reconciliation pass (lines 292-295), applied to
\* the index and the shapes the handler left.
RenderEffects(map, sh) ==
  /\ layerShapeMap' = ensureLayerBindings(layers', activeLayerId', map, sh).map
  /\ shapes' = ensureLayerBindings(layers', activeLayerId', map, sh).sh
  /\ handleEditorChange

\* toggleVisibility, lines 400-409 and 419: newIsVisible is assigned inside the
\* setLayers updater.  React runs the updater during the call only when the
\* component has no update pending (eager); otherwise it runs at the next
\* render and line 419 still reads the initial value true.
NewIsVisible(id, eager) ==
  IF eager /\ HasLayer(layers, id) THEN ~FindLayer(layers, id).isVisible ELSE TRUE

\* toggleVisibility(id)
toggleVisibility(id, eager) ==
  /\ layers' = [i \in 1..Len(layers) |->
                  IF layers[i].id = id
                  THEN [layers[i] EXCEPT !.isVisible = ~layers[i].isVisible]
                  ELSE layers[i]]
  /\ RenderEffects(PrunedMap(layerShapeMap, shapes, id),
                   updateShapes(shapes, getLayerShapeIds(layerShapeMap, shapes, id),
                                [opacity |-> IF NewIsVisible(id, eager) THEN 1 ELSE 0]))
  /\ last' = [NoOp EXCEPT !.op = "toggleVisibility", !.layer = id]
  /\ UNCHANGED <<activeLayerId, nextLayerNum, assets, nextShapeId, pendingImageIds,
                 propVars, isUpdatingImageRef, timerVars>>

\* toggleLock, lines 425-434 and 444: newIsLocked is assigned inside the updater
NewIsLocked(id, eager) ==
  IF eager /\ HasLayer(layers, id) THEN ~FindLayer(layers, id).isLocked ELSE FALSE

\* toggleLock(id)
toggleLock(id, eager) ==
  /\ layers' = [i \in 1..Len(layers) |->
                  IF layers[i].id = id
                  THEN [layers[i] EXCEPT !.isLocked = ~layers[i].isLocked]
                  ELSE layers[i]]
  /\ RenderEffects(PrunedMap(layerShapeMap, shapes, id),
                   updateShapes(shapes, getLayerShapeIds(layerShapeMap, shapes, id),
                                [isLocked |-> NewIsLocked(id, eager)]))
  /\ last' = [NoOp EXCEPT !.op = "toggleLock", !.layer = id]
  /\ UNCHANGED <<activeLayerId, nextLayerNum, assets, nextShapeId, pendingImageIds,
                 propVars, isUpdatingImageRef, timerVars>>

\* setActiveLayerId(id): a click on a row of the layer panel
setActiveLayerId(id) ==
  /\ activeLayerId' = id
  /\ IF id = activeLayerId
     THEN UNCHANGED <<layerShapeMap, shapes, refVars, statusVars, reqs>>
     ELSE RenderEffects(layerShapeMap, shapes)
  /\ last' = [NoOp EXCEPT !.op = "setActiveLayerId", !.layer = id]
  /\ UNCHANGED <<layers, nextLayerNum, assets, nextShapeId, pendingImageIds,
                 propVars, isUpdatingImageRef, timerVars>>

\* The names addLayer gives: `Layer ${nextNumber}`
AutoNames == <<"Layer 1", "Layer 2", "Layer 3", "Layer 4">>

\* addLayer, lines 352-353: l.name.match(/^Layer (\d+)$/i), parseInt, else 0
LayerNumber(name) ==
  CASE name \in {"Layer 1", "layer 1"} -> 1
    [] name \in {"Layer 2", "layer 2"} -> 2
    [] name \in {"Layer 3", "layer 3"} -> 3
    [] name \in {"Layer 4", "layer 4"} -> 4
    [] OTHER -> 0

\* A numbering that counts the layers instead of reading their names.
LengthPlusOne(ls) == Len(ls) + 1

\* addLayer, lines 350-357
NextNumber(ls) ==
  LET layerNumbers == {LayerNumber(ls[i].name) : i \in 1..Len(ls)} \ {0}
  IN IF layerNumbers = {} THEN 1
     ELSE (CHOOSE n \in layerNumbers : \A m \in layerNumbers : m <= n) + 1

\* addLayer()
addLayer ==
  /\ nextLayerNum < MaxNewLayers
  /\ Len(layers) < MaxLayers
  /\ NextNumber(layers) <= Len(AutoNames)
  /\ layers' = Append(layers, [id |-> LayerIdTable[nextLayerNum + 1],
                               name |-> AutoNames[NextNumber(layers)],
                               isVisible |-> TRUE, isLocked |-> FALSE])
  /\ activeLayerId' = LayerIdTable[nextLayerNum + 1]
  /\ nextLayerNum' = nextLayerNum + 1
  /\ RenderEffects(layerShapeMap, shapes)
  /\ last' = [NoOp EXCEPT !.op = "addLayer", !.layer = LayerIdTable[nextLayerNum + 1]]
  /\ UNCHANGED <<assets, nextShapeId, pendingImageIds, propVars, isUpdatingImageRef,
                 timerVars>>

\* editor.deleteShapes(ids)
RECURSIVE deleteShapes(_, _)
deleteShapes(sh, ids) ==
  IF ids = <<>> THEN sh ELSE deleteShapes(deleteShape(sh, Head(ids)), Tail(ids))

\* deleteLayer, lines 379-384: the index without the layer's entry
WithoutEntry(map, id) ==
  IF id \in DOMAIN map THEN [k \in DOMAIN map \ {id} |-> map[k]] ELSE map

\* prev.filter((l) => l.id !== id)
WithoutLayer(ls, id) == SelectSeq(ls, LAMBDA l : l.id # id)

\* deleteLayer, lines 389-394: the layer made active when the active one goes
NextActive(ls, id) ==
  LET filtered == WithoutLayer(ls, id)
      \* layers.findIndex, as a position of the sequence (0: not found)
      currentIndex == IF HasLayer(ls, id)
                      THEN CHOOSE i \in 1..Len(ls) :
                             /\ ls[i].id = id
                             /\ \A j \in 1..(i - 1) : ls[j].id # id
                      ELSE 0
  IN IF currentIndex \in 1..Len(filtered) THEN filtered[currentIndex].id
     ELSE IF Len(filtered) > 0 THEN filtered[Len(filtered)].id
     ELSE DefaultLayerId

\* deleteLayer(id)
deleteLayer(id) ==
  /\ IF id = DefaultLayerId /\ Len(layers) = 1
     THEN UNCHANGED <<layers, activeLayerId, layerShapeMap, shapes, refVars, statusVars,
                      reqs>>
     ELSE /\ layers' = WithoutLayer(layers, id)
          /\ activeLayerId' = IF activeLayerId = id THEN NextActive(layers, id)
                              ELSE activeLayerId
          /\ RenderEffects(WithoutEntry(PrunedMap(layerShapeMap, shapes, id), id),
                           deleteShapes(shapes, getLayerShapeIds(layerShapeMap, shapes, id)))
  /\ last' = [NoOp EXCEPT !.op = "deleteLayer", !.layer = id]
  /\ UNCHANGED <<nextLayerNum, assets, nextShapeId, pendingImageIds, propVars,
                 isUpdatingImageRef, timerVars>>

\* renameLayer(id, newName)
renameLayer(id, newName) ==
  /\ layers' = [i \in 1..Len(layers) |->
                  IF layers[i].id = id THEN [layers[i] EXCEPT !.name = newName]
                  ELSE layers[i]]
  /\ RenderEffects(layerShapeMap, shapes)
  /\ last' = [NoOp EXCEPT !.op = "renameLayer", !.layer = id]
  /\ UNCHANGED <<activeLayerId, nextLayerNum, assets, nextShapeId, pendingImageIds,
                 propVars, isUpdatingImageRef, timerVars>>

\* moveLayer, lines 457-465: the sequence with the layer one place up or down
MovedLayers(ls, id, direction) ==
  LET index == IF HasLayer(ls, id) THEN CHOOSE i \in 1..Len(ls) : ls[i].id = id ELSE 0
      nextIndex == IF direction = "up" THEN index + 1 ELSE index - 1
  IN IF index = 0 THEN ls
     ELSE IF direction = "up" /\ index = Len(ls) THEN ls
     ELSE IF direction = "down" /\ index = 1 THEN ls
     ELSE [i \in 1..Len(ls) |->
             IF i = index THEN ls[nextIndex]
             ELSE IF i = nextIndex THEN ls[index]
             ELSE ls[i]]

\* moveLayer(id, direction): the updater returns prev when nothing moves, and
\* there is then no render; getLayerShapeIds prunes the index of every layer.
RECURSIVE PrunedAll(_, _, _)
PrunedAll(map, sh, ls) ==
  IF ls = <<>> THEN map ELSE PrunedAll(PrunedMap(map, sh, Head(ls).id), sh, Tail(ls))

moveLayer(id, direction) ==
  /\ layers' = MovedLayers(layers, id, direction)
  /\ IF layers' = layers
     THEN UNCHANGED <<layerShapeMap, shapes, refVars, statusVars, reqs>>
     ELSE RenderEffects(PrunedAll(layerShapeMap, shapes, layers'), shapes)
  /\ last' = [NoOp EXCEPT !.op = "moveLayer", !.layer = id]
  /\ UNCHANGED <<activeLayerId, nextLayerNum, assets, nextShapeId, pendingImageIds,
                 propVars, isUpdatingImageRef, timerVars>>

\* assignShapeToLayer(shapeId, layerId) called through the hook's interface:
\* the index is written to the page meta (setLayerShapeMap, lines 186-197),
\* a document change the store listener sees.
CallAssignShapeToLayer(shapeId, layerId) ==
  /\ layerShapeMap' = assignShapeToLayer(layerShapeMap, shapeId, layerId)
  /\ handleEditorChange
  /\ last' = [NoOp EXCEPT !.op = "assignShapeToLayer", !.shape = shapeId, !.layer = layerId]
  /\ UNCHANGED <<layers, activeLayerId, nextLayerNum, canvasVars, pendingImageIds,
                 propVars, isUpdatingImageRef, timerVars>>

\* setIsAIEnabled(v) from the toolbar
setIsAIEnabled(v) ==
  /\ v # isAIEnabled
  /\ isAIEnabled' = v
  /\ last' = [NoOp EXCEPT !.op = "other"]
  /\ UNCHANGED <<layerVars, canvasVars, pendingImageIds, statusVars, isVoiceSessionActive,
                 refVars, isUpdatingImageRef, reqs, timerVars>>

\* onSessionChange(active): the voice session starts or stops
setIsVoiceSessionActive(v) ==
  /\ v # isVoiceSessionActive
  /\ isVoiceSessionActive' = v
  /\ last' = [NoOp EXCEPT !.op = "other"]
  /\ UNCHANGED <<layerVars, canvasVars, pendingImageIds, statusVars, isAIEnabled,
                 refVars, isUpdatingImageRef, reqs, timerVars>>

(* ------------------------- Persistence Sync ---------------------------- *)
\* Everything useCanvasSolver, useLayers and the editor store hold.
solverVars == <<layerVars, canvasVars, pendingImageIds, statusVars, propVars,
                refVars, isUpdatingImageRef, reqs, timerVars>>

MaxSaves == 1       \* save callbacks running at once

RunningSaves == IF savePc = "idle" THEN 0 ELSE 1

\* handleChange (lines 14-18, 94): with the latch held it returns; otherwise it
\* clears the pending timer and arms a new one.
handleChange(latch) ==
  IF latch THEN UNCHANGED saveTimeout ELSE saveTimeout' = TRUE

\* editor.store.listen(handleChange, ...) (lines 97-100): a step that changes
\* the document records calls handleChange, with the latch as the step left it.
SyncListener ==
  IF StoreSnapshot' # StoreSnapshot
    THEN handleChange(isUpdatingImageRef')
    ELSE UNCHANGED saveTimeout

\* A step of the canvas, the pipeline or the panel with useBoardSync mounted.
OnStoreChange ==
  /\ SyncListener
  /\ UNCHANGED <<debounceVars, online, savePc, snapshot, stored, overlapVars, voiceVars>>

\* The save timer fires (lines 18-57).  Offline, the callback returns (19-22).
\* Otherwise it captures the snapshot (27) and serializes it (30-36, out: "ok"
\* or "unserializable"), then awaits the thumbnail when the page has shapes
\* (40-43) and the remote update when it has none (76).
SaveTimerFires(out) ==
  /\ saveTimeout
  /\ RunningSaves < MaxSaves
  /\ saveTimeout' = FALSE
  /\ IF ~online
       THEN /\ last' = [NoOp EXCEPT !.op = "saveSkipped"]
            /\ UNCHANGED <<savePc, snapshot>>
       ELSE IF out = "unserializable"
         THEN /\ last' = [NoOp EXCEPT !.op = "saveCapture", !.failed = TRUE]
              /\ UNCHANGED <<savePc, snapshot>>
         ELSE /\ last' = [NoOp EXCEPT !.op = "saveCapture"]
              /\ snapshot' = StoreSnapshot
              /\ savePc' = IF DOMAIN shapes # {} THEN "thumb" ELSE "write"
  /\ UNCHANGED <<solverVars, debounceVars, online, stored, overlapVars, voiceVars>>

\* The thumbnail settles (lines 43-60): a failure is logged and the save goes on.
ThumbSettles(out) ==
  /\ savePc = "thumb"
  /\ savePc' = "write"
  /\ last' = [NoOp EXCEPT !.op = "saveThumb", !.failed = (out = "throw")]
  /\ UNCHANGED <<solverVars, debounceVars, saveTimeout, online, snapshot, stored,
                 overlapVars, voiceVars>>

\* The remote update settles (lines 76-93): written ("ok"), or refused with a
\* statement timeout, with another error, or by a rejected promise.
WriteSettles(out) ==
  /\ savePc = "write"
  /\ savePc' = "idle"
  /\ stored' = IF out = "ok" THEN snapshot ELSE stored
  /\ snapshot' = NoSnapshot
  /\ last' = [NoOp EXCEPT !.op = "saveWrite", !.failed = (out # "ok"),
                          !.success = (out = "ok")]
  /\ UNCHANGED <<solverVars, debounceVars, saveTimeout, online, overlapVars, voiceVars>>

\* The callback of lines 18-94 has no in-flight guard: the save timer fires
\* while an earlier callback is still awaiting its thumbnail or its remote
\* update, and a second callback runs beside it (online, snapshot serialized).
OverlappingSaveFires ==
  /\ saveTimeout
  /\ savePc # "idle"
  /\ overlapPc = "idle"
  /\ online
  /\ saveTimeout' = FALSE
  /\ overlapSnapshot' = StoreSnapshot
  /\ overlapPc' = IF DOMAIN shapes # {} THEN "thumb" ELSE "write"
  /\ last' = [NoOp EXCEPT !.op = "saveCapture"]
  /\ UNCHANGED <<solverVars, debounceVars, online, savePc, snapshot, stored, voiceVars>>

\* The second callback's thumbnail settles (lines 43-60).
OverlapThumbSettles(out) ==
  /\ overlapPc = "thumb"
  /\ overlapPc' = "write"
  /\ last' = [NoOp EXCEPT !.op = "saveThumb", !.failed = (out = "throw")]
  /\ UNCHANGED <<solverVars, debounceVars, saveTimeout, online, savePc, snapshot, stored,
                 overlapSnapshot, voiceVars>>

\* The second callback's remote update settles (lines 76-93).
OverlapWriteSettles(out) ==
  /\ overlapPc = "write"
  /\ overlapPc' = "idle"
  /\ stored' = IF out = "ok" THEN overlapSnapshot ELSE stored
  /\ overlapSnapshot' = NoSnapshot
  /\ last' = [NoOp EXCEPT !.op = "saveWrite", !.failed = (out # "ok"),
                          !.success = (out = "ok")]
  /\ UNCHANGED <<solverVars, debounceVars, saveTimeout, online, savePc, snapshot, voiceVars>>

\* The browser goes offline or comes back online.
SetOnline(v) ==
  /\ online # v
  /\ online' = v
  /\ last' = [NoOp EXCEPT !.op = "online"]
  /\ UNCHANGED <<solverVars, debounceVars, saveTimeout, savePc, snapshot, stored,
                 overlapVars, voiceVars>>

(* ------------------------- Activity Debouncer -------------------------- *)
MaxTriggers == 2    \* trigger callbacks counted after one mutation

\* A mutation listener that takes every mutation, whatever the latch says.
TakesEveryMutation(latch) ==
  /\ debounceTimer' = QuietPeriod
  /\ sinceMutation' = 0
  /\ triggers' = 0

\* The debouncer's mutation listener (spec 4.2): a mutation flagged as
\* engine-originated is ignored; any other cancels the pending timer and
\* starts the quiet period again.
handleActivity(latch) ==
  IF latch
    THEN UNCHANGED debounceVars
    ELSE /\ debounceTimer' = QuietPeriod
         /\ sinceMutation' = 0
         /\ triggers' = 0

\* The mutation source: a step that changes the document records calls the
\* listener, with the latch as the step left it.
ActivityListener ==
  IF StoreSnapshot' # StoreSnapshot
    THEN handleActivity(isUpdatingImageRef')
    ELSE UNCHANGED debounceVars

\* A step of the canvas or the pipeline with the debouncer mounted.
OnActivity == ActivityListener /\ UNCHANGED <<syncVars, voiceVars>>

\* A unit of time passes; a timer that is due runs before the next unit.
Tick ==
  /\ debounceTimer # 0
  /\ debounceTimer' = IF debounceTimer = NoTimer THEN NoTimer ELSE debounceTimer - 1
  /\ sinceMutation' = IF sinceMutation < QuietPeriod THEN sinceMutation + 1 ELSE sinceMutation
  /\ last' = [NoOp EXCEPT !.op = "tick"]
  /\ UNCHANGED <<solverVars, triggers, syncVars, voiceVars>>

\* handleAutoGeneration (lines 258-261): the trigger callback
handleAutoGeneration ==
  IF ~isAIEnabled
    THEN /\ last' = [NoOp EXCEPT !.op = "trigger"]
         /\ UNCHANGED solverVars
    ELSE GenerateSolution("auto")

\* The pending timer is due: the debouncer emits its trigger (line 263).
DebounceFires ==
  /\ debounceTimer = 0
  /\ debounceTimer' = NoTimer
  /\ triggers' = IF triggers < MaxTriggers THEN triggers + 1 ELSE triggers
  /\ handleAutoGeneration
  /\ UNCHANGED <<sinceMutation, syncVars, voiceVars>>

(* --------------------------- Voice Session ----------------------------- *)
MaxSessions == 2    \* voice sessions that acquire the microphone
MaxCalls == 2       \* function_call items received

\* Everything outside useVoiceAgent, but the prop its onSessionChange sets.
nonVoiceVars == <<layerVars, canvasVars, pendingImageIds, statusVars, isAIEnabled,
                  refVars, isUpdatingImageRef, reqs, timerVars, debounceVars, syncVars>>

ToolNames == {"analyze_workspace", "draw_on_canvas"}

\* The function_call items a response can carry: a tool name, known or not,
\* and arguments that parse as JSON or do not.
Items == [name : ToolNames \cup {"other"}, args : {"json", "malformed"}]

\* cleanupSession (lines 40-56)
cleanupSession ==
  /\ dcState' = IF dcRef # 0 THEN "closed" ELSE dcState
  /\ pcState' = IF pcRef # 0 THEN "closed" ELSE pcState
  /\ dcRef' = 0
  /\ pcRef' = 0
  /\ micLive' = IF localStreamRef # 0 THEN FALSE ELSE micLive
  /\ localStreamRef' = 0

\* stopSession (lines 58-65); onSessionChange is setIsVoiceSessionActive.
stopSession ==
  /\ cleanupSession
  /\ isSessionActive' = FALSE
  /\ voiceStatus' = "idle"
  /\ statusDetail' = ""
  /\ isMuted' = FALSE
  /\ isVoiceSessionActive' = FALSE

\* toggleSession (lines 449-455): stopSession when the session is active,
\* otherwise startSession up to its first await (lines 264-276).
toggleSession ==
  /\ mounted
  /\ IF isSessionActive
       THEN /\ stopSession
            /\ last' = [NoOp EXCEPT !.op = "stopSession"]
            /\ UNCHANGED <<session, startPc>>
       ELSE /\ startPc = "idle"
            /\ pcRef = 0
            /\ session < MaxSessions
            /\ voiceStatus' = "connecting"
            /\ statusDetail' = ""
            /\ startPc' = "media"
            /\ last' = [NoOp EXCEPT !.op = "startSession"]
            /\ UNCHANGED <<isSessionActive, isMuted, voiceRefVars, rtcVars,
                           isVoiceSessionActive>>
  /\ UNCHANGED <<nonVoiceVars, restartVars, calls, sent, mounted>>

\* The catch block of startSession (lines 440-446): setErrorStatus, then
\* stopSession, whose setStatus and setStatusDetail come last.
StartSessionCatch(op) ==
  /\ stopSession
  /\ startPc' = "idle"
  /\ last' = [NoOp EXCEPT !.op = op]
  /\ UNCHANGED session

\* await navigator.mediaDevices.getUserMedia resumes (lines 276-381): the
\* stream, the peer connection and the data channel are created and their
\* handlers installed, or the catch block runs.
MediaSettles(out) ==
  /\ startPc = "media"
  /\ IF out = "reject"
       THEN StartSessionCatch("mediaFailed")
       ELSE /\ session' = session + 1
            /\ localStreamRef' = session + 1
            /\ pcRef' = session + 1
            /\ dcRef' = session + 1
            /\ micLive' = TRUE
            /\ pcState' = "open"
            /\ dcState' = "connecting"
            /\ startPc' = "negotiate"
            /\ last' = [NoOp EXCEPT !.op = "step"]
            /\ UNCHANGED <<voiceStateVars, isVoiceSessionActive>>
  /\ UNCHANGED <<nonVoiceVars, restartVars, calls, sent, mounted>>

\* The awaits of the offer, the token and the SDP exchange resume (lines
\* 383-439): all of them succeed, or one throws and the catch block runs.
NegotiateSettles(out) ==
  /\ startPc = "negotiate"
  /\ IF out = "throw"
       THEN StartSessionCatch("negotiateFailed")
       ELSE /\ startPc' = "idle"
            /\ last' = [NoOp EXCEPT !.op = "step"]
            /\ UNCHANGED <<voiceStateVars, voiceRefVars, rtcVars, isVoiceSessionActive>>
  /\ UNCHANGED <<nonVoiceVars, restartVars, calls, sent, mounted>>

\* startSession called again (lines 264-276) while the first call is still
\* connecting: isSessionActive is false until dc.onopen, so the guard of line
\* 265 lets it pass and it runs up to its first await.
RestartSession ==
  /\ mounted
  /\ ~isSessionActive
  /\ pcRef # 0
  /\ dcState = "connecting"
  /\ restartPc = "idle"
  /\ session < MaxSessions
  /\ voiceStatus' = "connecting"
  /\ statusDetail' = ""
  /\ restartPc' = "media"
  /\ last' = [NoOp EXCEPT !.op = "startSession"]
  /\ UNCHANGED <<nonVoiceVars, isSessionActive, isMuted, voiceRefVars, rtcVars,
                 isVoiceSessionActive, startPc, unreferenced, calls, sent, mounted>>

\* The second call's getUserMedia resumes (lines 276-381): the refs are
\* overwritten with its stream, connection and channel; what they referenced
\* stays live.
RestartMediaSettles(out) ==
  /\ restartPc = "media"
  /\ IF out = "reject"
       THEN /\ stopSession
            /\ restartPc' = "idle"
            /\ last' = [NoOp EXCEPT !.op = "mediaFailed"]
            /\ UNCHANGED <<session, unreferenced>>
       ELSE /\ session' = session + 1
            /\ unreferenced' = unreferenced \cup (IF pcRef # 0 THEN {pcRef} ELSE {})
            /\ localStreamRef' = session + 1
            /\ pcRef' = session + 1
            /\ dcRef' = session + 1
            /\ micLive' = TRUE
            /\ pcState' = "open"
            /\ dcState' = "connecting"
            /\ restartPc' = "negotiate"
            /\ last' = [NoOp EXCEPT !.op = "step"]
            /\ UNCHANGED <<voiceStateVars, isVoiceSessionActive>>
  /\ UNCHANGED <<nonVoiceVars, startPc, calls, sent, mounted>>

\* The second call's offer, token and SDP awaits resume (lines 383-439).
RestartNegotiateSettles(out) ==
  /\ restartPc = "negotiate"
  /\ IF out = "throw"
       THEN /\ stopSession
            /\ restartPc' = "idle"
            /\ last' = [NoOp EXCEPT !.op = "negotiateFailed"]
            /\ UNCHANGED <<session, unreferenced>>
       ELSE /\ restartPc' = "idle"
            /\ last' = [NoOp EXCEPT !.op = "step"]
            /\ UNCHANGED <<voiceStateVars, voiceRefVars, rtcVars, isVoiceSessionActive,
                           unreferenced>>
  /\ UNCHANGED <<nonVoiceVars, startPc, calls, sent, mounted>>

\* dc.onopen (lines 296-351)
DcOpen ==
  /\ dcState = "connecting"
  /\ pcState = "open"
  /\ startPc = "idle"
  /\ dcState' = "open"
  /\ voiceStatus' = "listening"
  /\ statusDetail' = ""
  /\ isSessionActive' = TRUE
  /\ isVoiceSessionActive' = TRUE
  /\ last' = [NoOp EXCEPT !.op = "dcOpen"]
  /\ UNCHANGED <<nonVoiceVars, restartVars, isMuted, voiceRefVars, session, pcState, micLive,
                 startPc, calls, sent, mounted>>

\* dc.onerror (lines 371-374); the browser closes the channel after the
\* error or leaves it as it is.
DcError(closes) ==
  /\ dcState \in {"connecting", "open"}
  /\ voiceStatus' = "error"
  /\ statusDetail' = "Voice channel error"
  /\ dcState' = IF closes THEN "closed" ELSE dcState
  /\ last' = [NoOp EXCEPT !.op = "dcError"]
  /\ UNCHANGED <<nonVoiceVars, restartVars, isVoiceSessionActive, isSessionActive, isMuted,
                 voiceRefVars, session, pcState, micLive, startPc, calls, sent, mounted>>

\* pc.onconnectionstatechange with the state 'failed' or 'disconnected'
\* (lines 376-381): setErrorStatus, then stopSession.
PcConnectionLost ==
  /\ pcState = "open"
  /\ stopSession
  /\ last' = [NoOp EXCEPT !.op = "pcFailed"]
  /\ UNCHANGED <<nonVoiceVars, restartVars, session, startPc, calls, sent, mounted>>

\* toggleMute (lines 457-467)
toggleMute ==
  /\ mounted
  /\ isMuted' = ~isMuted
  /\ last' = [NoOp EXCEPT !.op = "toggleMute"]
  /\ UNCHANGED <<nonVoiceVars, restartVars, isVoiceSessionActive, isSessionActive, voiceStatus,
                 statusDetail, voiceRefVars, rtcVars, startPc, calls, sent, mounted>>

\* The component unmounts: the hook registers no cleanup.
Unmount ==
  /\ mounted
  /\ mounted' = FALSE
  /\ last' = [NoOp EXCEPT !.op = "unmount"]
  /\ UNCHANGED <<nonVoiceVars, restartVars, isVoiceSessionActive, voiceStateVars, voiceRefVars,
                 rtcVars, startPc, calls, sent>>

\* handleServerEvent for the events that only set the status (lines 220-256)
ServerEvent(type) ==
  /\ dcState = "open"
  /\ type \in {"response.created", "input_audio_buffer.speech_started", "error"}
  /\ voiceStatus' = CASE type = "response.created" -> "thinking"
                      [] type = "input_audio_buffer.speech_started" -> "listening"
                      [] type = "error" -> "error"
  /\ statusDetail' = CASE type = "response.created" -> ""
                       [] type = "input_audio_buffer.speech_started" -> "Listening..."
                       [] type = "error" -> "Realtime error"
  /\ last' = [NoOp EXCEPT !.op = "serverEvent"]
  /\ UNCHANGED <<nonVoiceVars, restartVars, isVoiceSessionActive, isSessionActive, isMuted,
                 voiceRefVars, rtcVars, startPc, calls, sent, mounted>>

\* handleFunctionCall up to its first await (lines 91-109, 151-156): where the
\* call is suspended, "done" when it returned.
FirstAwait(item) ==
  IF dcRef = 0 THEN "done"
  ELSE IF item.args = "malformed" THEN "done"
  ELSE IF item.name = "analyze_workspace" THEN "capture"
  ELSE IF item.name = "draw_on_canvas" THEN "solve"
  ELSE "done"

\* The activation record of handleFunctionCall for an item: dc is the session
\* of the channel it read from dcRef, started whether its tool was invoked.
NewCall(item) ==
  [name |-> item.name, args |-> item.args, dc |-> dcRef, pc |-> FirstAwait(item),
   started |-> FirstAwait(item) # "done"]

\* handleServerEvent for 'response.done' (lines 226-240): handleFunctionCall
\* is called for each item without being awaited, then the status is set.
ResponseDone(items) ==
  /\ dcState = "open"
  /\ Len(calls) + Len(items) <= MaxCalls
  /\ calls' = calls \o [i \in 1..Len(items) |-> NewCall(items[i])]
  /\ voiceStatus' = "listening"
  /\ statusDetail' = ""
  /\ last' = [NoOp EXCEPT !.op = "responseDone"]
  /\ UNCHANGED <<nonVoiceVars, restartVars, isVoiceSessionActive, isSessionActive, isMuted,
                 voiceRefVars, rtcVars, startPc, sent, mounted>>

\* dc.send on the channel the call holds throws unless that channel is open.
CanSend(c) == calls[c].dc = session /\ dcState = "open"

Output(c) == [type |-> "function_call_output", call |-> c]
ResponseCreate(c) == [type |-> "response.create", call |-> c]

\* The call goes on to its next await.
ToolStep(c, next) ==
  /\ calls' = [calls EXCEPT ![c].pc = next]
  /\ last' = [NoOp EXCEPT !.op = "step"]
  /\ UNCHANGED <<voiceStatus, statusDetail, sent>>

\* The catch block of handleFunctionCall (lines 182-210): the error output,
\* response.create, setErrorStatus; a send on a closed channel throws out of it.
ToolCatch(c) ==
  /\ calls' = [calls EXCEPT ![c].pc = "done"]
  /\ last' = [NoOp EXCEPT !.op = "tool", !.failed = TRUE]
  /\ IF CanSend(c)
       THEN /\ sent' = sent \o <<Output(c), ResponseCreate(c)>>
            /\ voiceStatus' = "error"
            /\ statusDetail' = "Tool failed"
       ELSE UNCHANGED <<voiceStatus, statusDetail, sent>>

\* The tool's result is sent (lines 130-150, 160-180); a send on a closed
\* channel throws into the catch block.
ToolReturn(c) ==
  IF CanSend(c)
    THEN /\ calls' = [calls EXCEPT ![c].pc = "done"]
         /\ last' = [NoOp EXCEPT !.op = "tool"]
         /\ sent' = sent \o <<Output(c), ResponseCreate(c)>>
         /\ voiceStatus' = "thinking"
         /\ statusDetail' = ""
    ELSE ToolCatch(c)

ToolFrame ==
  UNCHANGED <<nonVoiceVars, restartVars, isVoiceSessionActive, isSessionActive, isMuted,
              voiceRefVars, rtcVars, startPc, mounted>>

\* await captureCanvasImage() resumes (lines 109-112)
CaptureSettles(c, out) ==
  /\ c \in DOMAIN calls
  /\ calls[c].pc = "capture"
  /\ IF out = "image" THEN ToolStep(c, "fetch") ELSE ToolCatch(c)
  /\ ToolFrame

\* await fetch('/api/voice/analyze-workspace') resumes (lines 114-125)
AnalyzeFetchSettles(c, out) ==
  /\ c \in DOMAIN calls
  /\ calls[c].pc = "fetch"
  /\ IF out = "ok" THEN ToolStep(c, "json") ELSE ToolCatch(c)
  /\ ToolFrame

\* await res.json() resumes (lines 127-150)
AnalyzeJsonSettles(c, out) ==
  /\ c \in DOMAIN calls
  /\ calls[c].pc = "json"
  /\ IF out = "ok" THEN ToolReturn(c) ELSE ToolCatch(c)
  /\ ToolFrame

\* await onSolveWithPrompt(...) resumes (lines 155-180)
SolveSettles(c, out) ==
  /\ c \in DOMAIN calls
  /\ calls[c].pc = "solve"
  /\ IF out = "throw" THEN ToolCatch(c) ELSE ToolReturn(c)
  /\ ToolFrame

(* --------------------------- specification ----------------------------- *)
\* The awaits of generateSolution resume, with every outcome of the awaited
\* operation; targets are the layer names the remote call may return.
Settles(targets) ==
  \/ \E r \in ReqIds, out \in {"blob", "null", "throw"} : SnapshotSettles(r, out) /\ UNCHANGED hookVars
  \/ \E r \in ReqIds, out \in {"ok", "notok", "reject"} : FetchSettles(r, out) /\ UNCHANGED hookVars
  \/ \E r \in ReqIds, out \in {"image", "noimage", "artistfail", "reject"},
        target \in targets :
        JsonSettles(r, out, target) /\ UNCHANGED hookVars
  \/ \E r \in ReqIds, out \in {"ok", "reject"} : BgRemoveSettles(r, out) /\ UNCHANGED hookVars
  \/ \E r \in ReqIds, out \in {"ok", "reject"} : ImageLoadSettles(r, out) /\ UNCHANGED hookVars

\* The awaits of generateSolution resume without a failure: the drawing outcome.
Draws(targets) ==
  \/ \E r \in ReqIds : SnapshotSettles(r, "blob") /\ UNCHANGED hookVars
  \/ \E r \in ReqIds : FetchSettles(r, "ok") /\ UNCHANGED hookVars
  \/ \E r \in ReqIds, target \in targets : JsonSettles(r, "image", target) /\ UNCHANGED hookVars
  \/ \E r \in ReqIds : BgRemoveSettles(r, "ok") /\ UNCHANGED hookVars
  \/ \E r \in ReqIds : ImageLoadSettles(r, "ok") /\ UNCHANGED hookVars

Timers ==
  \/ SuccessTimerFires /\ UNCHANGED hookVars
  \/ ErrorTimerFires /\ UNCHANGED hookVars
  \/ LatchTimerFires /\ UNCHANGED hookVars

UserEdits ==
  \/ UserCreateShape /\ UNCHANGED hookVars
  \/ \E s \in ShapeIds : UserModifyShape(s) /\ UNCHANGED hookVars
  \/ \E s \in ShapeIds : UserDeleteShape(s) /\ UNCHANGED hookVars

\* The request lifecycle: calls from every source at any moment, the user's
\* edits, the toolbar and the voice session, the timers.
Next ==
  \/ \E src \in Sources : GenerateSolution(src) /\ UNCHANGED hookVars
  \/ Settles({NoTarget})
  \/ Timers
  \/ UserEdits
  \/ \E v \in BOOLEAN : setIsAIEnabled(v) /\ UNCHANGED hookVars
  \/ \E v \in BOOLEAN : setIsVoiceSessionActive(v) /\ UNCHANGED hookVars

Spec == Init /\ [][Next]_vars

\* Staged results: drawing requests issued one after the other from the chat
\* panel, resolved by handleAccept/handleReject, with the layer panel in use.
NextStaged ==
  \/ (\A r \in ReqIds : ~InFlight(r)) /\ GenerateSolution("chat") /\ UNCHANGED hookVars
  \/ Draws(TargetNames \cup {NoTarget})
  \/ SuccessTimerFires /\ UNCHANGED hookVars
  \/ LatchTimerFires /\ UNCHANGED hookVars
  \/ UserCreateShape /\ UNCHANGED hookVars
  \/ \E s \in ShapeIds : handleAccept(s) /\ UNCHANGED hookVars
  \/ \E s \in ShapeIds : handleReject(s) /\ UNCHANGED hookVars
  \/ \E id \in LayerIds(layers), eager \in BOOLEAN : toggleVisibility(id, eager) /\ UNCHANGED hookVars

SpecStaged == Init /\ [][NextStaged]_vars

RenameNames == {"Sketch"}

\* The layer ids in use: 'default' and the ids generated so far or next.
KnownLayerIds == {DefaultLayerId} \cup {LayerIdTable[i] : i \in 1..MaxNewLayers}

\* The layer panel alone: the operations on the layer sequence, each called
\* with the id of a row the panel shows.
NextPanel ==
  \/ addLayer /\ UNCHANGED hookVars
  \/ \E id \in LayerIds(layers) : deleteLayer(id) /\ UNCHANGED hookVars
  \/ \E id \in LayerIds(layers), newName \in RenameNames : renameLayer(id, newName) /\ UNCHANGED hookVars
  \/ \E id \in LayerIds(layers), direction \in {"up", "down"} : moveLayer(id, direction) /\ UNCHANGED hookVars
  \/ \E id \in LayerIds(layers) : setActiveLayerId(id) /\ UNCHANGED hookVars

SpecPanel == Init /\ [][NextPanel]_vars

\* The layer panel over a canvas the user draws on.
NextLayers ==
  \/ addLayer /\ UNCHANGED hookVars
  \/ \E id \in LayerIds(layers) : deleteLayer(id) /\ UNCHANGED hookVars
  \/ \E id \in LayerIds(layers), eager \in BOOLEAN : toggleVisibility(id, eager) /\ UNCHANGED hookVars
  \/ \E id \in LayerIds(layers), eager \in BOOLEAN : toggleLock(id, eager) /\ UNCHANGED hookVars
  \/ \E id \in LayerIds(layers) : setActiveLayerId(id) /\ UNCHANGED hookVars
  \/ UserCreateShape /\ UNCHANGED hookVars

SpecLayers == Init /\ [][NextLayers]_vars

\* Labels the remote call may name the same layer by.
Labels == {"Layer 2", "layer 2", "2"}

\* The pipeline resolving target layers: chat requests on a canvas without
\* shapes to capture (no snapshot is taken), whose responses name a target
\* layer, and renames of a layer from the panel in between.
NextLabels ==
  \/ GenerateSolution("chat") /\ UNCHANGED hookVars
  \/ \E r \in ReqIds : FetchSettles(r, "ok") /\ UNCHANGED hookVars
  \/ \E r \in ReqIds, target \in Labels : JsonSettles(r, "image", target) /\ UNCHANGED hookVars
  \/ \E r \in ReqIds : BgRemoveSettles(r, "ok") /\ UNCHANGED hookVars
  \/ \E r \in ReqIds : ImageLoadSettles(r, "ok") /\ UNCHANGED hookVars
  \/ \E id \in LayerIds(layers), newName \in RenameNames : renameLayer(id, newName) /\ UNCHANGED hookVars
  \/ SuccessTimerFires /\ UNCHANGED hookVars
  \/ LatchTimerFires /\ UNCHANGED hookVars

SpecLabels == Init /\ [][NextLabels]_vars

\* The writers of the owning-layer tag and of the Layer-Shape Index: the
\* creation hook on the user's shapes, the pipeline's staging step (one chat
\* request at a time, with and without a target layer), and the panel
\* operations that touch the index or the locks.
NextBindings ==
  \/ addLayer /\ UNCHANGED hookVars
  \/ \E id \in LayerIds(layers) : deleteLayer(id) /\ UNCHANGED hookVars
  \/ \E id \in LayerIds(layers), eager \in BOOLEAN : toggleLock(id, eager) /\ UNCHANGED hookVars
  \/ UserCreateShape /\ UNCHANGED hookVars
  \/ (\A r \in ReqIds : ~InFlight(r)) /\ GenerateSolution("chat") /\ UNCHANGED hookVars
  \/ Draws(TargetNames \cup {NoTarget})
  \/ LatchTimerFires /\ UNCHANGED hookVars

SpecBindings == Init /\ [][NextBindings]_vars

\* The ids of the registry that name no layer at the moment.
NoLayerIds == KnownLayerIds \ LayerIds(layers)

\* The registry's interface called with ids that name no layer, on boards
\* built with addLayer, deleteLayer, toggleLock and the user's shapes.
NextRegistry ==
  \/ addLayer /\ UNCHANGED hookVars
  \/ UserCreateShape /\ UNCHANGED hookVars
  \/ \E id \in KnownLayerIds : deleteLayer(id) /\ UNCHANGED hookVars
  \/ \E id \in KnownLayerIds, eager \in BOOLEAN : toggleLock(id, eager) /\ UNCHANGED hookVars
  \/ \E id \in NoLayerIds, eager \in BOOLEAN : toggleVisibility(id, eager) /\ UNCHANGED hookVars
  \/ \E id \in NoLayerIds, newName \in RenameNames : renameLayer(id, newName) /\ UNCHANGED hookVars
  \/ \E id \in NoLayerIds, direction \in {"up", "down"} : moveLayer(id, direction) /\ UNCHANGED hookVars
  \/ \E s \in DOMAIN shapes, id \in NoLayerIds : CallAssignShapeToLayer(s, id) /\ UNCHANGED hookVars

SpecRegistry == Init /\ [][NextRegistry]_vars

\* The engine-write latch: drawing requests issued one after the other, with
\* the staging step completing or throwing, resolved by handleAccept and
\* handleReject.  The browser runs every armed timer.
NextLatch ==
  \/ (\A r \in ReqIds : ~InFlight(r)) /\ GenerateSolution("chat") /\ UNCHANGED hookVars
  \/ \E r \in ReqIds : FetchSettles(r, "ok") /\ UNCHANGED hookVars
  \/ \E r \in ReqIds : JsonSettles(r, "image", NoTarget) /\ UNCHANGED hookVars
  \/ \E r \in ReqIds : BgRemoveSettles(r, "ok") /\ UNCHANGED hookVars
  \/ \E r \in ReqIds : ImageLoadSettles(r, "ok") /\ UNCHANGED hookVars
  \/ \E r \in ReqIds, at \in {"createAssets", "createShape"} : StageThrows(r, at) /\ UNCHANGED hookVars
  \/ \E s \in ShapeIds : handleAccept(s) /\ UNCHANGED hookVars
  \/ \E s \in ShapeIds : handleReject(s) /\ UNCHANGED hookVars
  \/ SuccessTimerFires /\ UNCHANGED hookVars
  \/ ErrorTimerFires /\ UNCHANGED hookVars
  \/ LatchTimerFires /\ UNCHANGED hookVars

SpecLatch ==
  /\ Init
  /\ [][NextLatch]_vars
  /\ WF_vars(SuccessTimerFires /\ UNCHANGED hookVars)
  /\ WF_vars(ErrorTimerFires /\ UNCHANGED hookVars)
  /\ WF_vars(LatchTimerFires /\ UNCHANGED hookVars)

\* The tags a shape of a loaded board can carry: none, or a layer id.
LoadedTags == {NoLayer, DefaultLayerId, LayerIdTable[1]}

\* The index in which each shape is under the layer idx gives it (NoLayer:
\* under none), the ids of an entry in ascending order.
IndexFrom(idx) ==
  [k \in {idx[x] : x \in DOMAIN idx} \ {NoLayer} |->
     SortedIds({x \in DOMAIN idx : idx[x] = k})]

\* The hook mounted on a board loaded from the page (lines 283-290): one or
\* two layers, one of them active, and shapes that are locked or not, tagged
\* or not, and indexed under their tag's layer, under another, or under none.
InitLoaded ==
  /\ layers \in
       {<<[id |-> DefaultLayerId, name |-> "Layer 1", isVisible |-> TRUE,
           isLocked |-> FALSE]>>,
        <<[id |-> DefaultLayerId, name |-> "Layer 1", isVisible |-> TRUE,
           isLocked |-> FALSE],
          [id |-> LayerIdTable[1], name |-> "Layer 2", isVisible |-> TRUE,
           isLocked |-> FALSE]>>}
  /\ activeLayerId \in LayerIds(layers)
  /\ nextLayerNum = Len(layers) - 1
  /\ \E n \in 0..MaxShapes :
       /\ shapes \in [1..n -> [isLocked : BOOLEAN, opacity : {1}, layerId : LoadedTags]]
       /\ \E idx \in [1..n -> LoadedTags] : layerShapeMap = IndexFrom(idx)
       /\ nextShapeId = n + 1
  /\ assets = {}
  /\ pendingImageIds = <<>>
  /\ status = "idle"
  /\ statusMessage = ""
  /\ errorMessage = ""
  /\ isAIEnabled = TRUE
  /\ isVoiceSessionActive = FALSE
  /\ isProcessingRef = FALSE
  /\ abortControllerRef = 0
  /\ isUpdatingImageRef = FALSE
  /\ reqs = [r \in ReqIds |-> IdleReq]
  /\ successTimers = 0
  /\ errorTimers = 0
  /\ latchTimers = 0
  /\ last = NoOp
  /\ InitHooks

\* The effect of lines 292-295 runs the reconciliation pass.
EnsureBindingsEffect ==
  /\ layerShapeMap' = ensureLayerBindings(layers, activeLayerId, layerShapeMap, shapes).map
  /\ shapes' = ensureLayerBindings(layers, activeLayerId, layerShapeMap, shapes).sh
  /\ handleEditorChange
  /\ last' = [NoOp EXCEPT !.op = "ensureLayerBindings"]
  /\ UNCHANGED <<layers, activeLayerId, nextLayerNum, assets, nextShapeId,
                 pendingImageIds, propVars, isUpdatingImageRef, timerVars>>

NextLoaded == EnsureBindingsEffect /\ UNCHANGED hookVars

SpecLoaded == InitLoaded /\ [][NextLoaded]_vars

\* The board with useBoardSync mounted: the user draws, chat requests are
\* issued one after the other and staged, resolved by handleAccept and
\* handleReject; the save timer and the awaits of the save callback run with
\* every outcome, and the browser goes offline and online.
NextSync ==
  \/ (\A r \in ReqIds : ~InFlight(r)) /\ GenerateSolution("chat") /\ OnStoreChange
  \/ (\E r \in ReqIds : SnapshotSettles(r, "blob")) /\ OnStoreChange
  \/ (\E r \in ReqIds : FetchSettles(r, "ok")) /\ OnStoreChange
  \/ (\E r \in ReqIds : JsonSettles(r, "image", NoTarget)) /\ OnStoreChange
  \/ (\E r \in ReqIds : BgRemoveSettles(r, "ok")) /\ OnStoreChange
  \/ (\E r \in ReqIds : ImageLoadSettles(r, "ok")) /\ OnStoreChange
  \/ UserCreateShape /\ OnStoreChange
  \/ (\E s \in ShapeIds : handleAccept(s)) /\ OnStoreChange
  \/ (\E s \in ShapeIds : handleReject(s)) /\ OnStoreChange
  \/ SuccessTimerFires /\ OnStoreChange
  \/ LatchTimerFires /\ OnStoreChange
  \/ \E v \in BOOLEAN : SetOnline(v)
  \/ \E out \in {"ok", "unserializable"} : SaveTimerFires(out)
  \/ \E out \in {"ok", "throw"} : ThumbSettles(out)
  \/ \E out \in {"ok", "timeout", "error", "reject"} : WriteSettles(out)

SpecSync == Init /\ [][NextSync]_vars


\* The board with useBoardSync mounted, online and with a remote store that
\* accepts every write: the user draws between the requests, chat requests
\* are issued while a shape can still be staged, staged one after the other
\* and resolved by handleAccept and handleReject on the staged shapes.
\* The browser runs every armed timer and every await settles.
NextSyncLive ==
  \/ /\ \A r \in ReqIds : ~InFlight(r)
     /\ nextShapeId <= MaxShapes
     /\ GenerateSolution("chat")
     /\ OnStoreChange
  \/ (\E r \in ReqIds : SnapshotSettles(r, "blob")) /\ OnStoreChange
  \/ (\E r \in ReqIds : FetchSettles(r, "ok")) /\ OnStoreChange
  \/ (\E r \in ReqIds : JsonSettles(r, "image", NoTarget)) /\ OnStoreChange
  \/ (\E r \in ReqIds : BgRemoveSettles(r, "ok")) /\ OnStoreChange
  \/ (\E r \in ReqIds : ImageLoadSettles(r, "ok")) /\ OnStoreChange
  \/ (\A r \in ReqIds : ~InFlight(r)) /\ UserCreateShape /\ OnStoreChange
  \/ (\E s \in Range(pendingImageIds) : handleAccept(s)) /\ OnStoreChange
  \/ (\E s \in Range(pendingImageIds) : handleReject(s)) /\ OnStoreChange
  \/ SuccessTimerFires /\ OnStoreChange
  \/ LatchTimerFires /\ OnStoreChange
  \/ SaveTimerFires("ok")
  \/ ThumbSettles("ok")
  \/ WriteSettles("ok")

SpecSyncLive ==
  /\ Init
  /\ [][NextSyncLive]_vars
  /\ WF_vars((\E r \in ReqIds : SnapshotSettles(r, "blob")) /\ OnStoreChange)
  /\ WF_vars((\E r \in ReqIds : FetchSettles(r, "ok")) /\ OnStoreChange)
  /\ WF_vars((\E r \in ReqIds : JsonSettles(r, "image", NoTarget)) /\ OnStoreChange)
  /\ WF_vars((\E r \in ReqIds : BgRemoveSettles(r, "ok")) /\ OnStoreChange)
  /\ WF_vars((\E r \in ReqIds : ImageLoadSettles(r, "ok")) /\ OnStoreChange)
  /\ WF_vars(SuccessTimerFires /\ OnStoreChange)
  /\ WF_vars(LatchTimerFires /\ OnStoreChange)
  /\ WF_vars(SaveTimerFires("ok"))
  /\ WF_vars(ThumbSettles("ok"))
  /\ WF_vars(WriteSettles("ok"))

\* The board with the debouncer mounted: the user draws and erases, the
\* debouncer's trigger issues the 'auto' requests, which are staged and
\* resolved by handleAccept and handleReject.  Time passes, the browser runs
\* every armed timer and every await of the pipeline settles.
NextDebounce ==
  \/ UserCreateShape /\ OnActivity
  \/ (\E s \in ShapeIds : UserDeleteShape(s)) /\ OnActivity
  \/ (\E r \in ReqIds : SnapshotSettles(r, "blob")) /\ OnActivity
  \/ (\E r \in ReqIds : FetchSettles(r, "ok")) /\ OnActivity
  \/ (\E r \in ReqIds : JsonSettles(r, "image", NoTarget)) /\ OnActivity
  \/ (\E r \in ReqIds : BgRemoveSettles(r, "ok")) /\ OnActivity
  \/ (\E r \in ReqIds : ImageLoadSettles(r, "ok")) /\ OnActivity
  \/ (\E s \in ShapeIds : handleAccept(s)) /\ OnActivity
  \/ (\E s \in ShapeIds : handleReject(s)) /\ OnActivity
  \/ (\E v \in BOOLEAN : setIsAIEnabled(v)) /\ OnActivity
  \/ SuccessTimerFires /\ OnActivity
  \/ LatchTimerFires /\ OnActivity
  \/ Tick
  \/ DebounceFires

SpecDebounce ==
  /\ Init
  /\ [][NextDebounce]_vars
  /\ WF_vars((\E r \in ReqIds : SnapshotSettles(r, "blob")) /\ OnActivity)
  /\ WF_vars((\E r \in ReqIds : FetchSettles(r, "ok")) /\ OnActivity)
  /\ WF_vars((\E r \in ReqIds : JsonSettles(r, "image", NoTarget)) /\ OnActivity)
  /\ WF_vars((\E r \in ReqIds : BgRemoveSettles(r, "ok")) /\ OnActivity)
  /\ WF_vars((\E r \in ReqIds : ImageLoadSettles(r, "ok")) /\ OnActivity)
  /\ WF_vars(SuccessTimerFires /\ OnActivity)
  /\ WF_vars(LatchTimerFires /\ OnActivity)
  /\ WF_vars(Tick)
  /\ WF_vars(DebounceFires)

CallIds == 1..MaxCalls

\* The responses that carry function_call items: one item or two.
ItemLists == {<<i>> : i \in Items} \cup {<<i, j>> : i \in Items, j \in Items}

\* The voice session: the user toggles the session and the microphone and
\* leaves the page, the awaits of startSession and of the tools resume with
\* every outcome, the data channel opens, fails and delivers server events,
\* and the peer connection fails.
NextVoice ==
  \/ toggleSession
  \/ toggleMute
  \/ Unmount
  \/ \E out \in {"stream", "reject"} : MediaSettles(out)
  \/ \E out \in {"ok", "throw"} : NegotiateSettles(out)
  \/ DcOpen
  \/ \E closes \in BOOLEAN : DcError(closes)
  \/ PcConnectionLost
  \/ \E type \in {"response.created", "input_audio_buffer.speech_started", "error"} :
       ServerEvent(type)
  \/ \E items \in ItemLists : ResponseDone(items)
  \/ \E c \in CallIds, out \in {"image", "null", "throw"} : CaptureSettles(c, out)
  \/ \E c \in CallIds, out \in {"ok", "notok", "reject"} : AnalyzeFetchSettles(c, out)
  \/ \E c \in CallIds, out \in {"ok", "reject"} : AnalyzeJsonSettles(c, out)
  \/ \E c \in CallIds, out \in {"true", "false", "throw"} : SolveSettles(c, out)

SpecVoice == Init /\ [][NextVoice]_vars

\* The request lifecycle under the code's scheduling: every await of a request
\* that is in flight resumes (the remote call responds or fails, the image
\* loads or fails to load), and every armed timer fires.
NextSettle ==
  \/ GenerateSolution("chat") /\ UNCHANGED hookVars
  \/ Settles({NoTarget})
  \/ Timers
  \/ UserCreateShape /\ UNCHANGED hookVars
  \/ \E s \in ShapeIds : UserModifyShape(s) /\ UNCHANGED hookVars

SettleOf(r) ==
  \/ \E out \in {"blob", "null", "throw"} : SnapshotSettles(r, out)
  \/ \E out \in {"ok", "notok", "reject"} : FetchSettles(r, out)
  \/ \E out \in {"image", "noimage", "artistfail", "reject"} : JsonSettles(r, out, NoTarget)
  \/ \E out \in {"ok", "reject"} : BgRemoveSettles(r, out)
  \/ \E out \in {"ok", "reject"} : ImageLoadSettles(r, out)

SpecSettle ==
  /\ Init
  /\ [][NextSettle]_vars
  /\ \A r \in ReqIds : SF_vars(SettleOf(r) /\ UNCHANGED hookVars)
  /\ WF_vars(SuccessTimerFires /\ UNCHANGED hookVars)
  /\ WF_vars(ErrorTimerFires /\ UNCHANGED hookVars)
  /\ WF_vars(LatchTimerFires /\ UNCHANGED hookVars)

\* Engine writes less than one settle delay apart: a staged shape is accepted
\* or rejected while the latch-clear timer of the previous engine write is
\* still armed. The timers have the same delay (100 ms), so they fire in the
\* order they were armed.
NextBurst ==
  \/ (\A r \in ReqIds : ~InFlight(r)) /\ GenerateSolution("chat") /\ UNCHANGED hookVars
  \/ Draws({NoTarget})
  \/ \E s \in Range(pendingImageIds) : AcceptUpTo(s, MaxLatchBurst) /\ UNCHANGED hookVars
  \/ \E s \in Range(pendingImageIds) : RejectUpTo(s, MaxLatchBurst) /\ UNCHANGED hookVars
  \/ UserCreateShape /\ UNCHANGED hookVars
  \/ SuccessTimerFires /\ UNCHANGED hookVars
  \/ LatchTimerFires /\ UNCHANGED hookVars

SpecBurst == Init /\ [][NextBurst]_vars

\* The user draws and erases while the debounced saves run, every save
\* succeeding: a save may start while the previous one is still awaiting.
NextOverlap ==
  \/ UserCreateShape /\ OnStoreChange
  \/ (\E s \in ShapeIds : UserDeleteShape(s)) /\ OnStoreChange
  \/ SaveTimerFires("ok")
  \/ \E out \in {"ok", "throw"} : ThumbSettles(out)
  \/ WriteSettles("ok")
  \/ OverlappingSaveFires
  \/ \E out \in {"ok", "throw"} : OverlapThumbSettles(out)
  \/ OverlapWriteSettles("ok")

SpecOverlap == Init /\ [][NextOverlap]_vars

\* The session's start and stop, with startSession called again while the
\* first call is connecting.
NextRestart ==
  \/ toggleSession
  \/ \E out \in {"stream", "reject"} : MediaSettles(out)
  \/ \E out \in {"ok", "throw"} : NegotiateSettles(out)
  \/ restartPc = "idle" /\ DcOpen
  \/ PcConnectionLost
  \/ \E closes \in BOOLEAN : DcError(closes)
  \/ RestartSession
  \/ \E out \in {"stream", "reject"} : RestartMediaSettles(out)
  \/ \E out \in {"ok", "throw"} : RestartNegotiateSettles(out)

SpecRestart == Init /\ [][NextRestart]_vars

(* ------------------------------ claims --------------------------------- *)
\* A step of the activation in slot r after it was cancelled.
CancelledStep(r) == reqs[r].aborted /\ reqs'[r] # reqs[r]

\* C1: at most one non-cancelled generation request is in flight at any time
\* (every call made while one is in flight is refused).
C1_AtMostOneInFlight == Cardinality(LiveReqs) <= 1

\* C2: a request cancelled by a user edit creates no asset and no shape, does
\* not change the Layer-Shape Index (nor the layers), does not set the
\* engine-write latch and appends nothing to pendingImageIds, at whichever
\* await it resumes and whatever the awaited operation answers.
C2_CancelledNoSideEffects ==
  [][\A r \in ReqIds :
       CancelledStep(r) =>
         UNCHANGED <<assets, shapes, nextShapeId, layerShapeMap, layers, activeLayerId,
                     isUpdatingImageRef, latchTimers, pendingImageIds>>]_vars

\* C2 witness: a cancelled request resumed from its image load, the last await
\* before the canvas writes, and settled.
C2_Witness == last.op = "settle" /\ last.cancelled /\ last.at = "imgload"

C4_CancelledWritesNoStatus ==
  [][\A r \in ReqIds : CancelledStep(r) => UNCHANGED statusVars]_vars

\* C5: a user edit made while the latch is not held aborts every request in
\* flight and leaves status idle with an empty statusMessage, without setting
\* errorMessage.
C5_EditCancelsInFlight ==
  [][(last'.op = "edit" /\ ~isUpdatingImageRef) =>
       /\ \A r \in ReqIds : Live(r) => reqs'[r].aborted
       /\ LiveReqs # {} => (status' = "idle" /\ statusMessage' = ""
                            /\ errorMessage' = errorMessage)]_vars

\* The conditions C6 names, at the call.
C6_Conditions(src) ==
  /\ LiveReqs = {}
  /\ ~isVoiceSessionActive \/ src = "voice"
  /\ isAIEnabled \/ src # "auto"
  /\ DOMAIN shapes # {} \/ src \in {"chat", "voice"}

\* C6: generateSolution goes on to the remote call exactly when no other
\* request is in flight, the voice session is inactive or the source is voice,
\* auto-mode is enabled or the source is not auto, and the canvas is not empty
\* or the source is chat or voice; otherwise it returns success=false and
\* leaves status, pendingImageIds and the canvas unchanged.
C6_GuardExact ==
  [][last'.op = "call" =>
       /\ (last'.r # 0) <=> C6_Conditions(last'.src)
       /\ last'.r = 0 => (~last'.success /\ UNCHANGED <<statusVars, pendingImageIds,
                                                         shapes, assets>>)]_vars

\* C7: pendingImageIds holds no shape id twice and only ids of shapes that
\* exist on the canvas.
C7_PendingDistinctAndOnCanvas ==
  /\ NoDuplicates(pendingImageIds)
  /\ Range(pendingImageIds) \subseteq DOMAIN shapes

\* C7 witness: one staged shape was resolved while another is still pending.
C7_Witness ==
  /\ last.op \in {"accept", "reject"}
  /\ last.wasPending
  /\ Len(pendingImageIds) >= 1

\* C8: handleAccept(s) for a pending shape s leaves s on the canvas, locked,
\* with opacity 1 if the layer it is tagged with is visible at the call and 0
\* if that layer is hidden, and removes s from pendingImageIds.
C8_AcceptKeepsShape ==
  [][(last'.op = "accept" /\ Includes(pendingImageIds, last'.shape)) =>
       /\ last'.shape \in DOMAIN shapes'
       /\ shapes'[last'.shape].isLocked
       /\ shapes'[last'.shape].opacity =
            (IF IsHidden(layers, shapes[last'.shape].layerId) THEN 0 ELSE 1)
       /\ shapes'[last'.shape].layerId = shapes[last'.shape].layerId
       /\ ~Includes(pendingImageIds', last'.shape)]_vars

\* C8 witness: a pending shape whose layer is hidden was accepted.
C8_Witness ==
  /\ last.op = "accept"
  /\ last.wasPending
  /\ last.shape \in DOMAIN shapes
  /\ shapes[last.shape].opacity = 0
  /\ IsHidden(layers, shapes[last.shape].layerId)

\* C9: handleReject(s) for a pending shape s removes s from the canvas and
\* from pendingImageIds, removes no other pending id, keeps the order of the
\* others and leaves every other shape unchanged.
C9_RejectRemovesOne ==
  [][(last'.op = "reject" /\ Includes(pendingImageIds, last'.shape)) =>
       /\ last'.shape \notin DOMAIN shapes'
       /\ DOMAIN shapes' = DOMAIN shapes \ {last'.shape}
       /\ \A x \in DOMAIN shapes' : shapes'[x] = shapes[x]
       /\ \E k \in 1..Len(pendingImageIds) :
            /\ pendingImageIds[k] = last'.shape
            /\ pendingImageIds' = SubSeq(pendingImageIds, 1, k - 1)
                                    \o SubSeq(pendingImageIds, k + 1, Len(pendingImageIds))]_vars

\* C9 witness: a pending shape was rejected while another stayed pending.
C9_Witness ==
  /\ last.op = "reject"
  /\ last.wasPending
  /\ last.existed
  /\ Len(pendingImageIds) >= 1

C11_FailureSurfacesAsError ==
  [][(last'.op = "settle" /\ last'.failed /\ last'.at # "snapshot") =>
       /\ status' = "error"
       /\ errorMessage' # ""
       /\ errorTimers' = errorTimers + 1
       /\ UNCHANGED <<shapes, assets, pendingImageIds>>]_vars

\* C12: after any sequence of addLayer, deleteLayer, renameLayer and moveLayer
\* calls the layer sequence is non-empty.
C12_LayersNonEmpty == Len(layers) >= 1

\* The layers whose index entry holds the shape.
LayersOf(map, shapeId) == {k \in DOMAIN map : Includes(map[k], shapeId)}

C14_FindOrCreateIdempotent ==
  [][(last'.op = "settle" /\ last'.shape # 0 /\ last'.layer # "") =>
       ((\E i \in 1..Len(layers) : NormalizeName(layers[i].name) = "2") =>
          /\ layers' = layers
          /\ HasLayer(layers, last'.layer)
          /\ NormalizeName(FindLayer(layers, last'.layer).name) = "2")]_vars

\* The numeric suffixes of the auto-named layers of a layer sequence.
LayerNumbers(ls) == {LayerNumber(ls[i].name) : i \in 1..Len(ls)} \ {0}

\* The largest element of a set of naturals, 0 for the empty set.
MaxOf(S) == IF S = {} THEN 0 ELSE CHOOSE n \in S : \A m \in S : m <= n

\* What C15 says of one addLayer step, but for the retired numbers.
AddLayerAppends ==
  LET new == layers'[Len(layers')]
  IN /\ Len(layers') = Len(layers) + 1
     /\ SubSeq(layers', 1, Len(layers)) = layers
     /\ LayerNumber(new.name) = MaxOf(LayerNumbers(layers)) + 1
     /\ new.name = AutoNames[LayerNumber(new.name)]
     /\ \A i \in 1..Len(layers) : layers[i].name # new.name
     /\ ~HasLayer(layers, new.id)
     /\ activeLayerId' = new.id

\* C15: over any sequence of addLayer and deleteLayer calls, addLayer appends a
\* layer named 'Layer N' with N one greater than the largest numeric suffix
\* among the existing auto-named layers, N was never used by a layer that has
\* since been deleted, the name differs from every existing name, and the new
\* layer becomes active.  Where no call renames a layer the numbers used
\* before the (k+1)-th addLayer are 1..k+1 as long as no number was reused
\* (the initial layer is 'Layer 1' and every addLayer takes the largest
\* existing number plus one), so a number never used before is k+2.
C15_AddLayerNeverReuses ==
  [][last'.op = "addLayer" =>
       /\ AddLayerAppends
       /\ LayerNumber(layers'[Len(layers')].name) = nextLayerNum + 2]_vars

\* C15, as the code has it: addLayer appends a layer named 'Layer N' with N one
\* greater than the largest numeric suffix among the existing auto-named
\* layers (1 when there is none), the name differs from every existing name,
\* and the new layer becomes active; N may be the number of a deleted layer.
C15_AddLayerNextNumber == [][last'.op = "addLayer" => AddLayerAppends]_vars

\* C15 witness: addLayer has just named its layer with the number of a layer
\* that was deleted before.
C15_Witness ==
  /\ last.op = "addLayer"
  /\ HasLayer(layers, last.layer)
  /\ LayerNumber(FindLayer(layers, last.layer).name) < nextLayerNum + 1

\* The position of the layer in the sequence (the layer exists).
IndexOfLayer(ls, id) == CHOOSE i \in 1..Len(ls) : ls[i].id = id

\* C16: deleteLayer(id) of an existing layer, with at least two layers, removes
\* the layer, removes from the canvas every shape indexed under it (locked and
\* pending shapes included), removes the layer's index entry and, if the layer
\* was active, makes active the layer that followed it in the sequence, or the
\* last remaining layer when none followed.
C16_DeleteLayerRemovesShapes ==
  [][(last'.op = "deleteLayer" /\ Len(layers) >= 2 /\ HasLayer(layers, last'.layer)) =>
       LET id == last'.layer
           i  == IndexOfLayer(layers, id)
       IN /\ layers' = WithoutLayer(layers, id)
          /\ \A x \in DOMAIN shapes :
               (id \in DOMAIN layerShapeMap /\ Includes(layerShapeMap[id], x))
                 => x \notin DOMAIN shapes'
          /\ id \notin DOMAIN layerShapeMap'
          /\ activeLayerId = id =>
               activeLayerId' = IF i < Len(layers) THEN layers[i + 1].id
                                ELSE layers[i - 1].id]_vars

\* C17: toggleVisibility(L) of an existing layer flips L's isVisible flag and
\* sets opacity 0 (L becomes hidden) or 1 (L becomes visible) on exactly the
\* shapes indexed under L at the time of the call, and changes no other shape.
C17_ToggleVisibilitySetsOpacity ==
  [][(last'.op = "toggleVisibility" /\ HasLayer(layers, last'.layer)) =>
       LET L == last'.layer
           indexed == IF L \in DOMAIN layerShapeMap THEN Range(layerShapeMap[L]) ELSE {}
       IN /\ HasLayer(layers', L)
          /\ FindLayer(layers', L).isVisible = ~FindLayer(layers, L).isVisible
          /\ DOMAIN shapes' = DOMAIN shapes
          /\ \A x \in DOMAIN shapes :
               IF x \in indexed
               THEN shapes'[x].opacity = IF FindLayer(layers', L).isVisible THEN 1 ELSE 0
               ELSE shapes'[x] = shapes[x]]_vars

\* The registry operations that take a layer id.
RegistryOps == {"deleteLayer", "toggleVisibility", "toggleLock", "renameLayer",
                "moveLayer", "assignShapeToLayer"}

\* C18: a registry operation (deleteLayer, toggleVisibility, toggleLock,
\* renameLayer, moveLayer, assignShapeToLayer) called with a layer id that
\* names no existing layer leaves the layer sequence, the active layer, the
\* Layer-Shape Index and every shape unchanged (no operation of the registry
\* has a step that raises).
C18_InvalidIdIsNoOp ==
  [][(last'.op \in RegistryOps /\ ~HasLayer(layers, last'.layer)) =>
       UNCHANGED <<layers, activeLayerId, layerShapeMap, shapes>>]_vars

C20_ReconciliationBinds ==
  [][last'.op = "ensureLayerBindings" =>
       /\ \A x \in DOMAIN shapes' :
            /\ shapes'[x].layerId # NoLayer
            /\ LayersOf(layerShapeMap', x) = {shapes'[x].layerId}
       /\ \A x \in DOMAIN shapes :
            shapes[x].layerId # NoLayer => LayersOf(layerShapeMap', x) = {shapes[x].layerId}
       /\ ensureLayerBindings(layers', activeLayerId', layerShapeMap', shapes') =
            [map |-> layerShapeMap', sh |-> shapes']]_vars

\* C29: in every reachable state of the pipeline, status = idle implies that
\* errorMessage and statusMessage are empty, whatever the interleaving of
\* requests, cancellations and the auto-clear timers of earlier requests.
C29_IdleHasNoMessages ==
  status = "idle" => (errorMessage = "" /\ statusMessage = "")

\* C30: when the remote call of a request that was not cancelled returns no
\* image, generateSolution returns success=true with the returned text, creates
\* no asset and no shape, leaves pendingImageIds and the Layer-Shape Index as
\* they were, and status returns to idle; a cancelled request never returns
\* success=true or a non-empty text.
C30_NoImageReturnsText ==
  [][last'.op = "settle" =>
       /\ (last'.at = "json" /\ ~last'.cancelled /\ ~last'.failed) =>
            /\ last'.success
            /\ ReturnedText(last') = TextContent
            /\ UNCHANGED <<assets, shapes, pendingImageIds, layerShapeMap>>
            /\ status' = "idle"
       /\ last'.cancelled => (~last'.success /\ ReturnedText(last') = "")]_vars

\* C24: every time the pipeline sets the engine-write latch (staging a shape,
\* handleAccept, handleReject) the latch is eventually cleared, on every path
\* including the one where asset or shape creation throws after the latch was
\* set.
C24_LatchEventuallyCleared == isUpdatingImageRef ~> ~isUpdatingImageRef

\* C22: Persistence Sync never performs a save (the snapshot capture, the
\* remote write) at a moment when the engine-write latch is held or the
\* browser is offline, whenever the timer of that save was armed.
C22_NoSaveUnderLatchOrOffline ==
  [][((last'.op = "saveCapture" /\ ~last'.failed) \/ (last'.op = "saveWrite" /\ last'.success))
       => (~isUpdatingImageRef /\ online)]_vars

\* C23: after handleAccept or handleReject changed the canvas, a save carrying
\* the resulting canvas is eventually performed: the remote row comes to hold
\* the document as the canvas has it, without any further edit of the user.
C23_AcceptRejectEventuallySaved ==
  (last.op \in {"accept", "reject"} /\ last.existed) ~> (stored = StoreSnapshot)

\* A step that changed the document records of the store.
Mutated == StoreSnapshot' # StoreSnapshot

\* C21: the debouncer emits its trigger only when no mutation arrived for the
\* whole quiet period, and at most once after a mutation; a mutation made
\* with the latch clear cancels the pending timer and starts the quiet period
\* again, a mutation made with the latch set leaves the timer as it is; and
\* once a timer is pending the trigger is eventually emitted, once, with no
\* timer left pending.
C21_DebouncerFiresOncePerBurst ==
  /\ [][triggers' = triggers + 1 => sinceMutation >= QuietPeriod]_vars
  /\ [](triggers <= 1)
  /\ [][(Mutated /\ ~isUpdatingImageRef') => debounceTimer' = QuietPeriod]_vars
  /\ [][(Mutated /\ isUpdatingImageRef') => UNCHANGED <<debounceTimer, triggers>>]_vars
  /\ (debounceTimer # NoTimer) ~> (debounceTimer = NoTimer /\ triggers = 1)

\* C21 witness: the trigger was emitted and issued an 'auto' request on a
\* canvas that holds a staged shape: an earlier trigger's request was staged
\* under the latch, and a later mutation of the user started the timer again.
C21_Witness ==
  /\ triggers = 1
  /\ last.op = "call" /\ last.src = "auto" /\ last.r # 0
  /\ pendingImageIds # <<>>

\* The positions in sent of the function_call_output of call c.
OutputsFor(c) == {i \in 1..Len(sent) : sent[i] = Output(c)}

\* C25: tool invocations are serviced one at a time in arrival order: the
\* tool of a call has not started unless the output of the call before it was
\* sent, and the outputs are sent in the order the calls arrived.
C25_ToolsOneAtATimeInOrder ==
  /\ \A k \in 1..(Len(calls) - 1) : calls[k + 1].started => OutputsFor(k) # {}
  /\ \A i, j \in 1..Len(sent) :
       (i < j /\ sent[i].type = "function_call_output"
              /\ sent[j].type = "function_call_output") => sent[i].call < sent[j].call

\* C26: for every function_call item received, exactly one function_call_output
\* with its call id is sent, before the response.create for that call: never
\* more than one, none after the response.create, and one when the handler of
\* the call has returned, whatever the tool name, the arguments and the
\* tool's outcome.
C26_ExactlyOneOutputPerCall ==
  \A c \in DOMAIN calls :
    /\ Cardinality(OutputsFor(c)) <= 1
    /\ \A j \in 1..Len(sent) :
         sent[j] = ResponseCreate(c) => \E i \in OutputsFor(c) : i < j
    /\ calls[c].pc = "done" => Cardinality(OutputsFor(c)) = 1

\* The exits of a voice session: the explicit stop, a failure of startSession,
\* the loss of the peer connection, an error of the data channel, the unmount.
ExitOps == {"stopSession", "mediaFailed", "negotiateFailed", "pcFailed", "dcError",
            "unmount"}

\* The session's resources are released and its flags reset.
Released ==
  /\ ~micLive
  /\ pcState \in {"none", "closed"}
  /\ dcState \in {"none", "closed"}
  /\ pcRef = 0 /\ dcRef = 0 /\ localStreamRef = 0
  /\ ~isMuted
  /\ ~isSessionActive

\* C27: after every exit of a voice session (an unmount counts when a session
\* holds its resources) the microphone tracks are
\* stopped, the peer connection and the data channel are closed and their
\* refs cleared, isMuted and isSessionActive are false; and stopSession
\* called in the state stopSession leaves changes nothing.
C27_EveryExitReleases ==
  /\ [][(last'.op \in ExitOps /\ (last'.op = "unmount" => pcRef # 0))
        => Released']_vars
  /\ [][(last'.op \in {"stopSession", "mediaFailed", "negotiateFailed", "pcFailed"}
          /\ Released /\ voiceStatus = "idle" /\ statusDetail = "")
        => UNCHANGED <<voiceStateVars, voiceRefVars, rtcVars, isVoiceSessionActive>>]_vars

\* The failures of the session's resources: media acquisition, the peer
\* connection, the data channel.
FailureOps == {"mediaFailed", "pcFailed", "dcError"}

\* C28: after a media acquisition failure or a transport failure or
\* disconnect the session is ended, its resources are released and its status
\* is 'error' with a statusDetail that is not empty; the error of an ended
\* session stays until the user starts or stops a session.
C28_ResourceFailureSurfaced ==
  /\ [][last'.op \in FailureOps =>
          (Released' /\ voiceStatus' = "error" /\ statusDetail' # "")]_vars
  /\ [][(voiceStatus = "error" /\ ~isSessionActive
          /\ last'.op \notin {"startSession", "stopSession"})
        => (voiceStatus' = "error" /\ statusDetail' = statusDetail)]_vars

\* The destination of the shape a settlement staged: the layer resolved from
\* the returned target name when one was given, else the active layer.
StagedDestination == IF last'.layer # "" THEN last'.layer ELSE activeLayerId

C32_RequestSettlesAndIdles ==
  /\ \A r \in ReqIds : InFlight(r) ~> ~InFlight(r)
  /\ (last.op = "settle") ~>
       (status = "idle" /\ (isProcessingRef => \E r \in ReqIds : InFlight(r)))

\* A cancelled request settled after an earlier one had staged a shape, and
\* the status is idle with the guard released.
C32_Witness ==
  /\ last.op = "settle" /\ last.cancelled
  /\ pendingImageIds # <<>>
  /\ status = "idle" /\ ~isProcessingRef

\* C33: while a request that was not cancelled is waiting for its remote
\* call, status is "generating"; the reset timers armed by an earlier
\* request's success or error never change it.
C33_GeneratingWhileWaiting ==
  \A r \in ReqIds : (reqs[r].pc = "fetch" /\ ~reqs[r].aborted) => status = "generating"

\* C34: every shape whose id is in pendingImageIds is locked, from staging
\* until handleAccept or handleReject resolves it, under any sequence of
\* layer operations, toggleLock on its layer included.
C34_PendingShapesLocked ==
  \A i \in 1..Len(pendingImageIds) :
     pendingImageIds[i] \in DOMAIN shapes => shapes[pendingImageIds[i]].isLocked

\* C35: every id in pendingImageIds names a shape that exists on the canvas,
\* after any sequence of pipeline and Layer Registry operations, deleteLayer
\* on a layer that holds staged shapes included.
C35_PendingShapesExist ==
  \A i \in 1..Len(pendingImageIds) : pendingImageIds[i] \in DOMAIN shapes

\* C36: the engine-write latch stays set for the whole settle delay after
\* each engine-originated mutation: while the clear timer of an engine write
\* is still armed, the latch is set.
C36_LatchHeldForSettleDelay == latchTimers > 0 => isUpdatingImageRef

\* C37: when saves overlap, the remote store ends up holding the snapshot of
\* the later save: once no save timer is armed and every save callback has
\* completed, none of them having failed, the stored snapshot equals the
\* canvas state.
C37_LaterSaveWins ==
  (~saveTimeout /\ savePc = "idle" /\ overlapPc = "idle") => stored = StoreSnapshot

\* The sets of media resources (stream, peer connection, control channel)
\* that are live: the one the refs hold and the ones nothing refers to.
LiveResourceSets == unreferenced \cup (IF pcRef # 0 THEN {pcRef} ELSE {})

\* C38: at most one set of voice media resources is live at any time and
\* stopSession releases every resource acquired: a second startSession issued
\* while the first is connecting leaves no stream or connection unreferenced.
C38_OneResourceSet ==
  /\ Cardinality(LiveResourceSets) <= 1
  /\ last.op = "stopSession" => LiveResourceSets = {}

\* C39: after stopSession the voice status stays idle and isSessionActive
\* stays false until the next startSession, and nothing is sent: a tool call
\* in progress when the session stopped, or an event delivered late, changes
\* neither.
C39_StoppedStaysIdle ==
  [][(voiceStatus = "idle" /\ ~isSessionActive /\ last'.op # "startSession") =>
       (voiceStatus' = "idle" /\ ~isSessionActive' /\ sent' = sent)]_vars

\* C40: while a voice tool call is executing, from the arrival of its
\* function_call item until its output message is sent, the voice status is
\* "callingTool".
C40_CallingToolWhileExecuting ==
  \A c \in DOMAIN calls : calls[c].pc # "done" => voiceStatus = "callingTool"

====
